---- MODULE Spec2Model ----
(***************************************************************************)
(* Verification model of tools/fastq-load/fastq-load.py (ngs-tools).       *)
(*                                                                         *)
(* The loader is single threaded.  Each part of it is modelled by its own  *)
(* group of variables and its own specification:                           *)
(*   SpecPair    Defline.isPairedDeflines on two parsed deflines           *)
(* Strings of the program are TLA+ strings where only equality matters     *)
(* and sequences of character codes where order or length matters.         *)
(* Python's False/True returned next to 1 and 2 are the integers 0 and 1.  *)
(***************************************************************************)
EXTENDS Integers, Sequences, FiniteSets, TLC

\* ------------------------------------------------------------------------
\* Bounds of the model
\* ------------------------------------------------------------------------
MaxName == 2
MaxReadNum == 2
MaxStrLen == 1
MaxSeqLen == 2
MaxRecs == 2
MaxErrors == 1
MaxPoreRecs == 6
MaxFileRecs == 2
MaxRestartRecs == 2
MaxCountRecs == 3

\* FastqSpotWriter.maxErrorCount when no option sets it
DefaultMaxErrorCount == 100000

\* ------------------------------------------------------------------------
\* State
\* ------------------------------------------------------------------------
VARIABLES
    defline1, defline2,     \* the two Defline objects given to isPairedDeflines
    paired12, paired21,     \* isPairedDeflines(defline1, defline2, False) and the reverse
    pairedSame,             \* isPairedDeflines(defline1, defline2, True)
    pcPair,                 \* "start" before the calls, "done" after
    lenFastq,               \* the reader given to checkFastqLengths
    lenIsNumQual,           \* sw.isNumQual
    lenResult,              \* what checkFastqLengths returned
    lenBefore,              \* the reader as it was before the call
    pcLen,                  \* "start" before the call, "done" after
    file1, file2,           \* the records of the two input files, as read() delivers them
    pairMode,               \* fileReadPairs: "none", "same" (both reads in file1) or "other"
    handlePos,              \* records consumed from the handles of file1 and file2
    readers,                \* the FastqReader objects r1, r2 and r3 (the Nanopore 2D reader)
    arg1, arg2, arg3,       \* processFastqSpots: the readers fastq1, fastq2, fastq3 are bound to
    writer,                 \* the FastqSpotWriter and the rows it has written
    errorCount,             \* processFastqSpots: errors of this call
    errorTotal,             \* history: errors counted since the load began
    pcLoad,                 \* processFiles: "main", "drain1", "drain2", "drain2D", "done", "fatal"
    lines1, lines2,         \* the lines of the two input files of the readers fq1 and fq2
    isPaired,               \* fileReadPairs has an entry for file1: fastq2 is not None
    fq1, fq2,               \* the FastqReader objects of file1 and file2
    bound1, bound2,         \* processFastqSpots: what fastq1 and fastq2 are bound to
    spotWriter,             \* sw: mixedDeflines, spotCount, orphanReads
    firstPass, secondPass,  \* history: what each read() delivered before and after restart()
    pcFiles,                \* processFiles: "start", "setup", "emit", "done", "raised", "fatal";
                            \* a reader of its own: "pass1", "pass2"
    argv,                   \* sys.argv[1:]: the offset, quality and logOdds options
    prescanQuals,           \* the quality strings of the records the prescan reads
    qualWriter,             \* sw: offset, log odds, quality range, tables
    pcQual,                 \* generateArchive: "args", "prescan", "open", "emit", "fatal"
    fileDeflines,           \* the deflines of the records of each input file
    fileMultiLine,          \* whether the records of a file span more than four lines
    pairFilesProvided,      \* sw.pairFilesProvided
    pairing,                \* fileTypes, fileReadPairs, filePore2D, fileSkip, sw.orphanReads
    pcFilePairs,            \* generateArchive: "types", "provided", "firstReads", "orphans",
                            \* "pore2D", "process", "written", "fatal"
    parser,                 \* a Defline object, given one line after the other
    poreFiles,              \* the Nanopore files of a load, in the order of their names
    fileAt,                 \* processFiles: the place in poreFiles of the file at work
    qualCall,               \* one call of Qual.parseQual or of FastqReader.readQual: what it
                            \* was given and, once it has run, what it left
    typedFiles,             \* the input files of setFileTypes in the order of their names:
                            \* the first character, the name and the second line of the
                            \* records of each
    qualPairing,            \* fileTypes, fileQualPairs, fileSkip
    pcFileTypes,            \* generateArchive: "types", "typed", "fatal"
    streamLines,            \* the lines of one eight-line file
    streamPos,              \* the position of the file's handle: the lines read so far
    streamReaders,          \* the two reader objects made on that handle
    streamFastq,            \* processFastqSpots: the readers bound to fastq1 and fastq2
    streamType,             \* fileTypes[filename1]
    pcStream                \* processFastqSpots: "read1", "read2", "done", "exit"

pairVars == <<defline1, defline2, paired12, paired21, pairedSame, pcPair>>

lenVars == <<lenFastq, lenIsNumQual, lenResult, lenBefore, pcLen>>

loadVars == <<file1, file2, pairMode, handlePos, readers, arg1, arg2, arg3, writer,
              errorCount, errorTotal, pcLoad>>

filesVars == <<lines1, lines2, isPaired, fq1, fq2, bound1, bound2, spotWriter, firstPass,
               secondPass, pcFiles>>

qualVars == <<argv, prescanQuals, qualWriter, pcQual>>

filePairVars == <<fileDeflines, fileMultiLine, pairFilesProvided, pairing, pcFilePairs>>

parseVars == <<parser>>

poreFilesVars == <<poreFiles, fileAt>>

qualCallVars == <<qualCall>>

fileTypeVars == <<typedFiles, qualPairing, pcFileTypes>>

eightLineVars == <<streamLines, streamPos, streamReaders, streamFastq, streamType, pcStream>>

vars == <<pairVars, lenVars, loadVars, filesVars, qualVars, filePairVars, parseVars, poreFilesVars, qualCallVars, fileTypeVars, eightLineVars>>

\* ------------------------------------------------------------------------
\* Defline fields used by the pairing predicate
\* ------------------------------------------------------------------------
\* names: 0 is the empty string, k > 0 a non-empty name
NameSet == {0} \cup (1..MaxName)

\* readNum: 0 is the empty string, k is the one-character string "k"
ReadNums == 0..MaxReadNum

PoreReads == {"", "template", "complement", "2D"}

TagTypes == {"", "F3", "R3"}

\* raw defline strings: sequences of character codes
Chars == 1..2

RECURSIVE StringsUpTo(_)
StringsUpTo(n) ==
    IF n = 0 THEN {<<>>}
    ELSE LET shorter == StringsUpTo(n - 1)
         IN  shorter \cup {Append(s, c) : s \in {t \in shorter : Len(t) = n - 1}, c \in Chars}

DeflineStrings == StringsUpTo(MaxStrLen)

\* Python's str < str: lexicographic, a proper prefix is smaller
RECURSIVE StrLess(_, _)
StrLess(s, t) ==
    IF t = <<>> THEN FALSE
    ELSE IF s = <<>> THEN TRUE
    ELSE IF Head(s) < Head(t) THEN TRUE
    ELSE IF Head(s) > Head(t) THEN FALSE
    ELSE StrLess(Tail(s), Tail(t))

PairDeflines ==
    [name : NameSet, readNum : ReadNums, poreRead : PoreReads,
     tagType : TagTypes, deflineString : DeflineStrings]

\* mutant: the second template test answers 1 instead of 2
isPairedDeflinesTemplateSwap(d1, d2, sameReadNum) ==
    IF sameReadNum /\ d1.name # 0 /\ d2.name # 0
       /\ d1.name = d2.name /\ d1.readNum = d2.readNum
    THEN IF d1.tagType # "" /\ d2.tagType # "" /\ d1.tagType # d2.tagType
         THEN 0 ELSE 1
    ELSE IF ~sameReadNum /\ d1.name # 0 /\ d2.name # 0 /\ d1.name = d2.name
    THEN IF d1.readNum # 0 /\ d2.readNum # 0
         THEN IF d1.readNum < d2.readNum THEN 1 ELSE 2
         ELSE IF d1.poreRead = "template" THEN 1
         ELSE IF d2.poreRead = "template" THEN 1
         ELSE IF d1.poreRead # "" \/ d2.poreRead # "" THEN 0
         ELSE IF d1.tagType # "" /\ d2.tagType # ""
         THEN IF d1.tagType = "F3" /\ d2.tagType # "F3" THEN 1
              ELSE IF d2.tagType = "F3" /\ d1.tagType # "F3" THEN 2
              ELSE 1
         ELSE IF StrLess(d1.deflineString, d2.deflineString) THEN 1
         ELSE IF StrLess(d2.deflineString, d1.deflineString) THEN 2
         ELSE 1
    ELSE 0

\* Defline.isPairedDeflines: 0 is False, 1 is True or "defline1 is read 1",
\* 2 is "defline2 is read 1"
isPairedDeflines(d1, d2, sameReadNum) ==
    IF sameReadNum /\ d1.name # 0 /\ d2.name # 0
       /\ d1.name = d2.name /\ d1.readNum = d2.readNum
    THEN IF d1.tagType # "" /\ d2.tagType # "" /\ d1.tagType # d2.tagType
         THEN 0 ELSE 1
    ELSE IF ~sameReadNum /\ d1.name # 0 /\ d2.name # 0 /\ d1.name = d2.name
    THEN IF d1.readNum # 0 /\ d2.readNum # 0
         THEN IF d1.readNum < d2.readNum THEN 1 ELSE 2
         ELSE IF d1.poreRead = "template" THEN 1
         ELSE IF d2.poreRead = "template" THEN 2
         ELSE IF d1.poreRead # "" \/ d2.poreRead # "" THEN 0
         ELSE IF d1.tagType # "" /\ d2.tagType # ""
         THEN IF d1.tagType = "F3" /\ d2.tagType # "F3" THEN 1
              ELSE IF d2.tagType = "F3" /\ d1.tagType # "F3" THEN 2
              ELSE 1
         ELSE IF StrLess(d1.deflineString, d2.deflineString) THEN 1
         ELSE IF StrLess(d2.deflineString, d1.deflineString) THEN 2
         ELSE 1
    ELSE 0


\* ------------------------------------------------------------------------
\* Text of sequence and quality lines: sequences of one-character strings
\* ------------------------------------------------------------------------
Min(a, b) == IF a < b THEN a ELSE b

\* Python s[a:b] for 0 <= a
Slice(s, a, b) ==
    LET hi == Min(b, Len(s))
    IN  IF a >= hi THEN <<>> ELSE SubSeq(s, a + 1, hi)

\* Python s * n (empty for n <= 0)
RECURSIVE Repeat(_, _)
Repeat(s, n) == IF n <= 0 THEN <<>> ELSE s \o Repeat(s, n - 1)

\* Python s.split(): the maximal runs of non-blank characters
RECURSIVE SplitFrom(_, _, _)
SplitFrom(s, cur, acc) ==
    IF s = <<>> THEN (IF cur = <<>> THEN acc ELSE Append(acc, cur))
    ELSE IF Head(s) = " "
         THEN SplitFrom(Tail(s), <<>>, IF cur = <<>> THEN acc ELSE Append(acc, cur))
         ELSE SplitFrom(Tail(s), Append(cur, Head(s)), acc)

Split(s) == SplitFrom(s, <<>>, <<>>)

\* Python " ".join(chunks)
RECURSIVE Join(_)
Join(chunks) ==
    IF chunks = <<>> THEN <<>>
    ELSE IF Len(chunks) = 1 THEN chunks[1]
    ELSE chunks[1] \o <<" ">> \o Join(Tail(chunks))

Digits == {"0", "3", "7"}

DigitValue(c) == IF c = "3" THEN 3 ELSE IF c = "7" THEN 7 ELSE 0

\* Qual.isInt / int() succeeds
IsInt(tok) == tok # <<>> /\ \A i \in 1..Len(tok) : tok[i] \in Digits

\* Python int(tok) for a token of digits
RECURSIVE IntOf(_)
IntOf(tok) ==
    IF tok = <<>> THEN 0
    ELSE 10 * IntOf(SubSeq(tok, 1, Len(tok) - 1)) + DigitValue(tok[Len(tok)])

\* Defline.undefined, "[@>]([!-~]+)(\s+|$)", matched at the start of a line of
\* printable characters and blanks
undefinedMatch(s) ==
    /\ Len(s) >= 2
    /\ s[1] \in {"@", ">"}
    /\ s[2] # " "

\* FastqReader.readQual: the number of quality values of a quality line
lengthQualOf(qual, isNumQual) ==
    IF isNumQual THEN Len(Split(qual)) ELSE Len(qual)

\* the reader after read(): length and lengthQual as readSeq and readQual set them
ReaderAfterRead(seq, qual, isNumQual, eof) ==
    [eof |-> eof, seq |-> seq, qual |-> qual,
     length |-> Len(seq), lengthQual |-> lengthQualOf(qual, isNumQual),
     deflineString |-> <<"@", "r", "1">>, savedDeflineString |-> <<>>]

\* ------------------------------------------------------------------------
\* checkFastqLengths
\* ------------------------------------------------------------------------
\* checkFastqLengths: the reader after the call and the value returned.
\* The reader's defline is of the UNDEFINED variant, so deflineCheck accepts
\* the quality line as a defline when Defline.undefined matches it (or it is empty).
checkFastqLengths(fastq, isNumQual) ==
    IF fastq.eof THEN [fastq |-> fastq, ret |-> FALSE]
    ELSE IF fastq.length # fastq.lengthQual
    THEN LET missing == /\ Slice(fastq.qual, 0, 2) = Slice(fastq.deflineString, 0, 2)
                        /\ (fastq.qual = <<>> \/ undefinedMatch(fastq.qual))
             qual ==
                 IF missing
                 THEN IF isNumQual THEN Repeat(<<" ", "3", "0">>, fastq.length - 1)
                      ELSE Repeat(<<"?">>, fastq.length)
                 ELSE IF fastq.length > fastq.lengthQual
                 THEN IF isNumQual
                      THEN fastq.qual \o Repeat(<<" ", "3", "0">>, fastq.length - fastq.lengthQual)
                      ELSE fastq.qual \o Repeat(<<"?">>, fastq.length - fastq.lengthQual)
                 ELSE IF isNumQual
                      THEN Join(Slice(Split(fastq.qual), 0, fastq.length))
                      ELSE Slice(fastq.qual, 0, fastq.length)
         IN  [fastq |-> [fastq EXCEPT !.qual = qual,
                                      !.lengthQual = fastq.length,
                                      !.savedDeflineString =
                                          IF missing THEN fastq.qual ELSE @],
              ret |-> TRUE]
    ELSE [fastq |-> fastq, ret |-> FALSE]

\* the values a quality string holds: integers in numeric mode, characters otherwise
QualityValues(qual, isNumQual) ==
    IF isNumQual
    THEN [i \in 1..Len(Split(qual)) |-> IntOf(Split(qual)[i])]
    ELSE qual

DefaultValues(n, isNumQual) ==
    IF isNumQual THEN [i \in 1..n |-> 30] ELSE [i \in 1..n |-> "?"]

\* ------------------------------------------------------------------------
\* FastqSpotWriter: spots of paired, mixed and orphan reads (not Nanopore).
\* A writer state w is [sw, dst, gw, fatal]: the option and hash fields of the
\* FastqSpotWriter, its dst columns, the rows given to the general writer and
\* the error that ended the run ("" while it runs).  A reader f is the record
\* of FastqReader fields left by read().  ids and by are history fields of a
\* written row: the input records it holds and the function that wrote it.
\* ------------------------------------------------------------------------
NoEntry == <<>>

InHash(h, name) == name \in DOMAIN h /\ h[name] # NoEntry

\* FastqSpotWriter.getNumQualArray raises ValueError on a token that is no integer
NumQualOk(qualString) == \A i \in 1..Len(Split(qualString)) : IsInt(Split(qualString)[i])

\* setDstQual ( qualString, dst ) for dst one of "dst" and "dst2D"
setDstQualIn(w, qualString, dst) ==
    IF w.sw.isNumQual
    THEN IF NumQualOk(qualString)
         THEN [w EXCEPT ![dst].QUALITY = QualityValues(qualString, TRUE)]
         ELSE [w EXCEPT !.fatal = "ValueError"]
    ELSE [w EXCEPT ![dst].QUALITY = qualString]

setDstQual(w, qualString) == setDstQualIn(w, qualString, "dst")

\* gw.write(self.dst): a row of the SEQUENCE table
gwWrite(w, ids, by) ==
    IF w.fatal # "" THEN w
    ELSE [w EXCEPT !.gw = Append(@, [tbl |-> "SEQUENCE"] @@ w.dst @@ [ids |-> ids, by |-> by])]

\* gw.write(self.dst2D): a row of the CONSENSUS table
gwWrite2D(w, ids, by) ==
    IF w.fatal # "" THEN w
    ELSE [w EXCEPT !.gw = Append(@, [tbl |-> "CONSENSUS"] @@ w.dst2D @@ [ids |-> ids, by |-> by])]

\* the quality of two reads: a blank between them when numeric and both non-empty
PairQual(isNumQual, qual1, qual2) ==
    IF isNumQual /\ qual1 # <<>> /\ qual2 # <<>>
    THEN qual1 \o <<" ">> \o qual2
    ELSE qual1 \o qual2

\* setDstName: with ignoreNames the column NAME is left as it is
setDstName(w, fastq, name) == IF w.sw.ignoreNames THEN name ELSE fastq.name

processPairFastqSpot(w, fastq1, fastq2) ==
    setDstQual([w EXCEPT !.dst.READ = fastq1.seq \o fastq2.seq,
                         !.dst.READ_START = <<0, Len(fastq1.seq)>>,
                         !.dst.READ_LENGTH = <<Len(fastq1.seq), Len(fastq2.seq)>>],
               PairQual(w.sw.isNumQual, fastq1.qual, fastq2.qual))

processFragmentFastqSpot(w, fastq1) ==
    setDstQual([w EXCEPT !.dst.READ = fastq1.seq,
                         !.dst.READ_LENGTH = <<Len(fastq1.seq)>>],
               fastq1.qual)

writeMixedPair(w, fastq1, fastq2) ==
    LET swap == \/ fastq1.readNum # 0 /\ fastq1.readNum # 1 /\ fastq2.readNum = 1
                \/ fastq1.poreRead = "complement" /\ fastq2.poreRead = "template"
        f1 == IF swap THEN fastq2 ELSE fastq1
        f2 == IF swap THEN fastq1 ELSE fastq2
        w1 == processPairFastqSpot(w, f1, f2)
    IN  gwWrite([w1 EXCEPT !.dst.READ_TYPE = <<1, 1>>, !.dst.NAME = setDstName(w, f1, @)],
                <<f1.id, f2.id>>, "writeMixedPair")

writeMixedRead1(w, fastq1) ==
    LET read2 == w.sw.pairedRead2[fastq1.name][1]
        w1 == [w EXCEPT !.sw.pairedRead2[fastq1.name] = NoEntry,
                        !.dst.READ = fastq1.seq \o read2.seq,
                        !.dst.READ_START = <<0, Len(fastq1.seq)>>,
                        !.dst.READ_LENGTH = <<Len(fastq1.seq), Len(read2.seq)>>]
        w2 == setDstQual(w1, PairQual(w.sw.isNumQual, fastq1.qual, read2.qual))
    IN  gwWrite([w2 EXCEPT !.dst.READ_TYPE = <<1, 1>>, !.dst.NAME = setDstName(w, fastq1, @)],
                <<fastq1.id, read2.id>>, "writeMixedRead1")

writeMixedRead2(w, fastq2) ==
    LET read1 == w.sw.pairedRead1[fastq2.name][1]
        w1 == [w EXCEPT !.sw.pairedRead1[fastq2.name] = NoEntry,
                        !.dst.READ = read1.seq \o fastq2.seq,
                        !.dst.READ_START = <<0, Len(read1.seq)>>,
                        !.dst.READ_LENGTH = <<Len(read1.seq), Len(fastq2.seq)>>]
        w2 == setDstQual(w1, PairQual(w.sw.isNumQual, read1.qual, fastq2.qual))
    IN  gwWrite([w2 EXCEPT !.dst.READ_TYPE = <<1, 1>>, !.dst.NAME = setDstName(w, fastq2, @)],
                <<read1.id, fastq2.id>>, "writeMixedRead2")

writeMixedOrphan(w, fastq) ==
    LET w1 == processFragmentFastqSpot(w, fastq)
    IN  gwWrite([w1 EXCEPT !.dst.READ_START = <<0>>, !.dst.READ_TYPE = <<1>>,
                           !.dst.NAME = setDstName(w, fastq, @)],
                <<fastq.id>>, "writeMixedOrphan")

addToPairedReadHash(w, fastq) ==
    LET readValues == <<[seq |-> fastq.seq, qual |-> fastq.qual, id |-> fastq.id]>>
    IN  IF fastq.readNum = 1 \/ fastq.poreRead = "template"
        THEN [w EXCEPT !.sw.pairedRead1[fastq.name] = readValues]
        ELSE [w EXCEPT !.sw.pairedRead2[fastq.name] = readValues]

\* a read hashed without a look at the maps
processUnpairedReadUnseen(w, fastq) == addToPairedReadHash(w, fastq)

processUnpairedRead(w, fastq) ==
    IF InHash(w.sw.pairedRead2, fastq.name) THEN writeMixedRead1(w, fastq)
    ELSE IF InHash(w.sw.pairedRead1, fastq.name) THEN writeMixedRead2(w, fastq)
    ELSE addToPairedReadHash(w, fastq)

processMixedReads(w, fastq1, fastq2, has2) ==
    IF has2 /\ fastq1.name = fastq2.name
    THEN writeMixedPair(w, fastq1, fastq2)
    ELSE LET w1 == processUnpairedRead(w, fastq1)
         IN  IF has2 /\ w1.fatal = "" THEN processUnpairedRead(w1, fastq2) ELSE w1

processOrphanReads(w, fastq1) ==
    IF InHash(w.sw.pairedRead1, fastq1.name) \/ InHash(w.sw.pairedRead2, fastq1.name)
    THEN writeMixedOrphan(w, fastq1)
    ELSE w

\* ------------------------------------------------------------------------
\* FastqSpotWriter: Nanopore template, complement and 2D reads.  A row of
\* SEQUENCE and a row of CONSENSUS are written for each spot.
\* ------------------------------------------------------------------------
setNanoporeColumns(w, fastq, dst) ==
    [w EXCEPT ![dst].READ_NO = fastq.readNo, ![dst].CHANNEL = fastq.channel]

\* read2D is the entry of nanopore2Dread, or NoEntry for None
write2Dread(w, fastq, read2D) ==
    LET from == IF read2D # NoEntry THEN read2D[1] ELSE fastq
        w1 == setNanoporeColumns(w, fastq, "dst2D")
        w2 == [w1 EXCEPT !.dst2D.READ_TYPE = <<1>>, !.dst2D.READ = from.seq,
                         !.dst2D.READ_LENGTH = <<Len(from.seq)>>]
        w3 == setDstQualIn(w2, from.qual, "dst2D")
        w4 == gwWrite2D([w3 EXCEPT !.dst2D.NAME = setDstName(w, fastq, @)], <<from.id>>, "write2Dread")
    IN  IF w.sw.nanopore2Donly /\ w4.fatal = ""
        THEN [w4 EXCEPT !.sw.spotCount = @ + 1]
        ELSE w4

writeFakeTemplateRead(w, fastq) ==
    LET w1 == setNanoporeColumns(w, fastq, "dst")
        w2 == [w1 EXCEPT !.dst.READ_LENGTH = <<0>>, !.dst.READ_TYPE = <<0>>,
                         !.dst.READ = <<>>]
        w3 == setDstQualIn(w2, <<>>, "dst")
    IN  gwWrite([w3 EXCEPT !.dst.NAME = setDstName(w, fastq, @)], <<>>, "writeFakeTemplateRead")

writeFake2Dread(w, fastq) ==
    LET w1 == setNanoporeColumns(w, fastq, "dst2D")
        w2 == [w1 EXCEPT !.dst2D.READ_LENGTH = <<0>>, !.dst2D.READ_TYPE = <<0>>,
                         !.dst2D.READ = <<>>]
        w3 == setDstQualIn(w2, <<>>, "dst2D")
    IN  gwWrite2D([w3 EXCEPT !.dst2D.NAME = setDstName(w, fastq, @)], <<>>, "writeFake2Dread")

\* has is FALSE when the argument is None
addToPoreReadHash(w, fastq, has) ==
    IF has /\ ~fastq.eof
    THEN IF fastq.poreRead # "2D" THEN addToPairedReadHash(w, fastq)
         ELSE IF ~InHash(w.sw.nanopore2Dread, fastq.name)
         THEN [w EXCEPT !.sw.nanopore2Dread[fastq.name] =
                   <<[seq |-> fastq.seq, qual |-> fastq.qual, id |-> fastq.id]>>]
         ELSE w
    ELSE w

RECURSIVE processUnpairedPoreRead(_, _, _, _)
RECURSIVE writeNanopore2Dread(_, _, _, _)

\* has2D is FALSE when fastq2D is None
processUnpairedPoreRead(w, fastq, fastq2D, has2D) ==
    IF \/ fastq.poreRead = "2D"
       \/ (~InHash(w.sw.pairedRead1, fastq.name) /\ ~InHash(w.sw.pairedRead2, fastq.name))
    THEN LET w1 == addToPoreReadHash(w, fastq, TRUE)
         IN  IF has2D /\ ~fastq2D.eof THEN addToPoreReadHash(w1, fastq2D, TRUE) ELSE w1
    ELSE LET w1 == setNanoporeColumns(w, fastq, "dst")
             w2 == IF InHash(w.sw.pairedRead2, fastq.name) THEN writeMixedRead1(w1, fastq)
                   ELSE writeMixedRead2(w1, fastq)
         IN  writeNanopore2Dread(w2, fastq, fastq2D, has2D)

\* Write actual or fake 2D read
writeNanopore2Dread(w, fastq, fastq2D, has2D) ==
    LET live == has2D /\ ~fastq2D.eof
        other == IF live THEN fastq2D.poreRead # "2D" \/ fastq.name # fastq2D.name
                 ELSE FALSE
        readWritten == live /\ ~other
        w1 == IF ~live THEN w
              ELSE IF other THEN processUnpairedPoreRead(w, fastq2D, fastq2D, FALSE)
              ELSE write2Dread(w, fastq2D, NoEntry)
    IN  IF readWritten THEN w1
        ELSE IF InHash(w1.sw.nanopore2Dread, fastq.name)
        THEN LET w2 == write2Dread(w1, fastq, w1.sw.nanopore2Dread[fastq.name])
             IN  [w2 EXCEPT !.sw.nanopore2Dread[fastq.name] = NoEntry]
        ELSE writeFake2Dread(w1, fastq)

processNanoporeReads(w, fastq1, fastq2, has2, fastq3, has3) ==
    LET live2 == has2 /\ ~fastq2.eof
        live3 == has3 /\ ~fastq3.eof
    IN  IF live2 /\ fastq1.name = fastq2.name
           /\ fastq1.poreRead # "2D" /\ fastq2.poreRead # "2D"
        THEN writeNanopore2Dread(
                 writeMixedPair(setNanoporeColumns(w, fastq1, "dst"), fastq1, fastq2),
                 fastq1, fastq3, has3)
        ELSE IF live2 /\ live3 /\ fastq2.name = fastq3.name
                /\ fastq2.poreRead # "2D" /\ fastq3.poreRead # "2D"
        THEN LET w1 == IF fastq1.name # fastq2.name
                       THEN processUnpairedPoreRead(w, fastq1, fastq1, FALSE)
                       ELSE w
                 w2 == writeMixedPair(setNanoporeColumns(w1, fastq2, "dst"), fastq2, fastq3)
             IN  IF fastq1.name = fastq2.name
                 THEN writeNanopore2Dread(w2, fastq2, fastq1, TRUE)
                 ELSE writeNanopore2Dread(w2, fastq2, fastq2, FALSE)
        ELSE IF live3 /\ fastq1.name = fastq3.name
                /\ fastq1.poreRead # "2D" /\ fastq3.poreRead # "2D"
        THEN writeNanopore2Dread(
                 writeMixedPair(setNanoporeColumns(w, fastq1, "dst"), fastq1, fastq3),
                 fastq1, fastq2, has2)
        ELSE LET w1 == processUnpairedPoreRead(w, fastq1, fastq3, has3)
             IN  IF has2 THEN processUnpairedPoreRead(w1, fastq2, fastq2, FALSE) ELSE w1

processOrphanNanoporeReads(w, fastq1) ==
    IF /\ w.sw.dumpOrphans
       /\ fastq1.poreRead # "2D"
       /\ (InHash(w.sw.pairedRead1, fastq1.name) \/ InHash(w.sw.pairedRead2, fastq1.name))
    THEN writeNanopore2Dread(writeMixedOrphan(setNanoporeColumns(w, fastq1, "dst"), fastq1),
                             fastq1, fastq1, FALSE)
    ELSE IF /\ w.sw.dumpOrphans2D
            /\ fastq1.poreRead = "2D"
            /\ InHash(w.sw.nanopore2Dread, fastq1.name)
    THEN writeNanopore2Dread(writeFakeTemplateRead(w, fastq1), fastq1, fastq1, FALSE)
    ELSE w

setUnchangingSpotValues(w, has2) ==
    IF w.sw.platformString = "NANOPORE"
    THEN IF w.sw.spotCount = 0 THEN [w EXCEPT !.dst2D.READ_START = <<0>>] ELSE w
    ELSE IF w.sw.orphanReads THEN w
    ELSE IF has2
    THEN LET w1 == IF w.sw.read1IsTechnical THEN [w EXCEPT !.dst.READ_TYPE = <<0, 1>>]
                   ELSE w
         IN  IF w.sw.read2IsTechnical THEN [w1 EXCEPT !.dst.READ_TYPE = <<1, 0>>]
             ELSE [w1 EXCEPT !.dst.READ_TYPE = <<1, 1>>]
    ELSE IF ~w.sw.lengthsProvided
    THEN [w EXCEPT !.dst.READ_START = <<0>>, !.dst.READ_TYPE = <<1>>]
    ELSE [w EXCEPT !.dst.READ_START = w.sw.readStarts,
                   !.dst.READ_LENGTH = w.sw.readLengths,
                   !.dst.READ_TYPE = w.sw.readTypes]

\* the reads of a single file cut by the lengths given: with a length of zero
\* among them the last read takes what the reads before it leave, and the
\* array of unsigned integers raises OverflowError when that is negative
processMultiReadSingleFastqSpot(w, fastq1) ==
    LET readLengths == w.sw.readLengths
        readCount == w.sw.readCount
        rest == IF readCount = 2 THEN Len(fastq1.seq) - readLengths[1]
                ELSE IF readCount = 3 THEN Len(fastq1.seq) - readLengths[1] - readLengths[2]
                ELSE Len(fastq1.seq) - readLengths[1] - readLengths[2] - readLengths[3]
        readLengthsLocal ==
            [i \in 1..readCount |->
                IF i = 1 THEN readLengths[1]
                ELSE IF readCount \in 2..4 /\ i = readCount THEN rest
                ELSE IF readCount \in 3..4 THEN readLengths[i]
                ELSE 0]
        w1 == [w EXCEPT !.dst.READ = fastq1.seq]
    IN  IF ~w.sw.variableLengthSpecified THEN setDstQual(w1, fastq1.qual)
        ELSE IF readCount \in 2..4 /\ rest < 0 THEN [w1 EXCEPT !.fatal = "OverflowError"]
        ELSE setDstQual([w1 EXCEPT !.dst.READ_LENGTH = readLengthsLocal], fastq1.qual)

\* the non-orphan branch of writeSpot
writePlainSpot(w, fastq1, fastq2, has2) ==
    IF has2 /\ ~w.sw.ignoreNames /\ fastq1.name # fastq2.name
    THEN [w EXCEPT !.fatal = "Expected paired deflines but encountered name mismatch"]
    ELSE IF ~has2 /\ fastq1.eof THEN w
    ELSE LET w1 == IF has2 THEN processPairFastqSpot(w, fastq1, fastq2)
                   ELSE IF ~w.sw.lengthsProvided THEN processFragmentFastqSpot(w, fastq1)
                   ELSE processMultiReadSingleFastqSpot(w, fastq1)
             w2 == [w1 EXCEPT !.sw.spotCount = @ + 1, !.dst.NAME = setDstName(w, fastq1, @)]
             edge == IF has2 /\ fastq1.seq = <<>> THEN [w2 EXCEPT !.dst.READ_TYPE = <<0, 1>>]
                     ELSE IF has2 /\ fastq2.seq = <<>> THEN [w2 EXCEPT !.dst.READ_TYPE = <<1, 0>>]
                     ELSE w2
             w3 == gwWrite(edge, IF has2 THEN <<fastq1.id, fastq2.id>> ELSE <<fastq1.id>>,
                           IF has2 THEN "processPairFastqSpot"
                           ELSE IF ~w.sw.lengthsProvided THEN "processFragmentFastqSpot"
                           ELSE "processMultiReadSingleFastqSpot")
         IN  IF has2 /\ (fastq1.seq = <<>> \/ fastq2.seq = <<>>)
             THEN [w3 EXCEPT !.dst.READ_TYPE = <<1, 1>>]
             ELSE w3

writeSpot(w, fastq1, fastq2, has2, fastq3, has3) ==
    IF fastq1.seq = <<>> /\ (~has2 \/ fastq2.seq = <<>>) THEN w
    ELSE IF w.sw.platformString = "NANOPORE"
    THEN IF w.sw.nanopore2Donly THEN write2Dread(w, fastq1, NoEntry)
         ELSE IF w.sw.dumpOrphans \/ w.sw.dumpOrphans2D
         THEN processOrphanNanoporeReads(w, fastq1)
         ELSE processNanoporeReads(w, fastq1, fastq2, has2, fastq3, has3)
    ELSE IF w.sw.orphanReads
    THEN IF w.sw.dumpOrphans THEN processOrphanReads(w, fastq1)
         ELSE processMixedReads(w, fastq1, fastq2, has2)
    ELSE writePlainSpot(w, fastq1, fastq2, has2)

\* ------------------------------------------------------------------------
\* processFastqSpots and processFiles for one file or file pair
\* ------------------------------------------------------------------------
\* the reader after read() took the input record rec
ReaderOf(rec, isNumQual) ==
    [name |-> rec.name, readNum |-> rec.readNum, poreRead |-> rec.poreRead,
     channel |-> rec.channel, readNo |-> rec.readNo, id |-> rec.id]
        @@ ReaderAfterRead(rec.seq, rec.qual, isNumQual, FALSE)

\* a new reader, and the reader after read() met the end of the file
ReaderAtEof(eof) ==
    [name |-> 0, readNum |-> 0, poreRead |-> "", channel |-> 0, readNo |-> 0, id |-> 0]
        @@ ReaderAfterRead(<<>>, <<>>, FALSE, eof)

HandleOf(reader, mode) == IF reader = "r2" /\ mode = "other" THEN "h2" ELSE "h1"

\* FastqReader.read through the handle the reader was built on: the reader
\* after the call and the positions of the handles
readFrom(reader, rds, hp, mode, f1, f2, isNumQual) ==
    LET h == HandleOf(reader, mode)
        file == IF h = "h1" THEN f1 ELSE f2
    IN  IF hp[h] < Len(file)
        THEN [rd |-> [rds EXCEPT ![reader] = ReaderOf(file[hp[h] + 1], isNumQual)],
              hp |-> [hp EXCEPT ![h] = @ + 1]]
        ELSE [rd |-> [rds EXCEPT ![reader] = ReaderAtEof(TRUE)], hp |-> hp]

\* the reads at the top of the loop of processFastqSpots
readBoth(rds, hp, b1, b2, b3, mode, f1, f2, isNumQual) ==
    LET a == IF rds[b1].eof THEN [rd |-> rds, hp |-> hp]
             ELSE readFrom(b1, rds, hp, mode, f1, f2, isNumQual)
        b == IF b2 # "None" /\ ~a.rd[b2].eof
             THEN readFrom(b2, a.rd, a.hp, mode, f1, f2, isNumQual)
             ELSE a
    IN  IF b3 # "None" /\ ~b.rd[b3].eof
        THEN readFrom(b3, b.rd, b.hp, mode, f1, f2, isNumQual)
        ELSE b

\* the loop ends when fastq1 is at eof and fastq2 is None or at eof
loopBreaks(rds, b1, b2) ==
    IF rds[b1].eof THEN (IF b2 = "None" THEN TRUE ELSE rds[b2].eof) ELSE FALSE

\* mutant: the spot is written before the error count is tested
emitSpotWriteFirst(w0, errs0, rds, b1, b2, b3) ==
    LET orphan == /\ ~w0.sw.orphanReads /\ b2 # "None"
                  /\ ~rds[b1].eof /\ ~rds[b2].eof
                  /\ rds[b1].name # rds[b2].name
        wA == IF orphan THEN [w0 EXCEPT !.sw.orphanReads = TRUE] ELSE w0
        drop2 == b2 # "None" /\ rds[b2].eof
        swap == b2 # "None" /\ ~rds[b2].eof /\ rds[b1].eof
        n1 == IF swap THEN b2 ELSE b1
        n2 == IF drop2 \/ swap THEN "None" ELSE b2
        wB == IF drop2 \/ swap THEN setUnchangingSpotValues(wA, FALSE) ELSE wA
        c1 == checkFastqLengths(rds[n1], wB.sw.isNumQual)
        c2 == IF n2 # "None" THEN checkFastqLengths(rds[n2], wB.sw.isNumQual)
              ELSE [fastq |-> ReaderAtEof(TRUE), ret |-> FALSE]
        c3 == IF b3 # "None" THEN checkFastqLengths(rds[b3], wB.sw.isNumQual)
              ELSE [fastq |-> ReaderAtEof(TRUE), ret |-> FALSE]
        errs == errs0 + (IF c1.ret THEN 1 ELSE 0) + (IF c2.ret THEN 1 ELSE 0)
                      + (IF c3.ret THEN 1 ELSE 0)
        rdA == [rds EXCEPT ![n1] = c1.fastq]
        rdC == IF n2 # "None" THEN [rdA EXCEPT ![n2] = c2.fastq] ELSE rdA
        rdB == IF b3 # "None" THEN [rdC EXCEPT ![b3] = c3.fastq] ELSE rdC
        wC == writeSpot(wB, c1.fastq, c2.fastq, n2 # "None", c3.fastq, b3 # "None")
    IN  [w |-> IF errs > wB.sw.maxErrorCount /\ wC.fatal = ""
               THEN [wC EXCEPT !.fatal = "Too many errors occurred"]
               ELSE wC,
         errorCount |-> errs, rd |-> rdB, fastq1 |-> n1, fastq2 |-> n2]

\* the body of the loop of processFastqSpots when archive rows are written:
\* orphan emergence, the eof swaps, the length checks, the error budget, writeSpot
emitSpot(w0, errs0, rds, b1, b2, b3) ==
    LET orphan == /\ ~w0.sw.orphanReads /\ b2 # "None"
                  /\ ~rds[b1].eof /\ ~rds[b2].eof
                  /\ rds[b1].name # rds[b2].name
        wA == IF orphan THEN [w0 EXCEPT !.sw.orphanReads = TRUE] ELSE w0
        drop2 == b2 # "None" /\ rds[b2].eof
        swap == b2 # "None" /\ ~rds[b2].eof /\ rds[b1].eof
        n1 == IF swap THEN b2 ELSE b1
        n2 == IF drop2 \/ swap THEN "None" ELSE b2
        wB == IF drop2 \/ swap THEN setUnchangingSpotValues(wA, FALSE) ELSE wA
        c1 == checkFastqLengths(rds[n1], wB.sw.isNumQual)
        c2 == IF n2 # "None" THEN checkFastqLengths(rds[n2], wB.sw.isNumQual)
              ELSE [fastq |-> ReaderAtEof(TRUE), ret |-> FALSE]
        c3 == IF b3 # "None" THEN checkFastqLengths(rds[b3], wB.sw.isNumQual)
              ELSE [fastq |-> ReaderAtEof(TRUE), ret |-> FALSE]
        errs == errs0 + (IF c1.ret THEN 1 ELSE 0) + (IF c2.ret THEN 1 ELSE 0)
                      + (IF c3.ret THEN 1 ELSE 0)
        rdA == [rds EXCEPT ![n1] = c1.fastq]
        rdC == IF n2 # "None" THEN [rdA EXCEPT ![n2] = c2.fastq] ELSE rdA
        rdB == IF b3 # "None" THEN [rdC EXCEPT ![b3] = c3.fastq] ELSE rdC
    IN  [w |-> IF errs > wB.sw.maxErrorCount
               THEN [wB EXCEPT !.fatal = "Too many errors occurred"]
               ELSE writeSpot(wB, c1.fastq, c2.fastq, n2 # "None", c3.fastq, b3 # "None"),
         errorCount |-> errs, rd |-> rdB, fastq1 |-> n1, fastq2 |-> n2]

\* one turn of the loop that does not end it
EmitStep ==
    /\ pcLoad \in {"main", "drain1", "drain2", "drain2D"}
    /\ \E r \in {readBoth(readers, handlePos, arg1, arg2, arg3, pairMode, file1, file2,
                         writer.sw.isNumQual)} :
           /\ ~loopBreaks(r.rd, arg1, arg2)
           /\ \E e \in {emitSpot(writer, errorCount, r.rd, arg1, arg2, arg3)} :
                  /\ writer' = e.w
                  /\ errorCount' = e.errorCount
                  /\ errorTotal' = errorTotal + (e.errorCount - errorCount)
                  /\ readers' = e.rd
                  /\ arg1' = e.fastq1
                  /\ arg2' = e.fastq2
                  /\ handlePos' = r.hp
                  /\ pcLoad' = IF e.w.fatal # "" THEN "fatal" ELSE pcLoad
    /\ UNCHANGED <<file1, file2, pairMode, arg3>>
    /\ UNCHANGED <<eightLineVars, fileTypeVars, qualCallVars, poreFilesVars, parseVars, filePairVars, qualVars, pairVars, lenVars, filesVars>>

\* processFiles after the pass over the file or the pair: without orphan reads
\* the pair is done, else fastq1 is restarted and read again with dumpOrphans
EndMainPass ==
    /\ pcLoad = "main"
    /\ \E r \in {readBoth(readers, handlePos, arg1, arg2, arg3, pairMode, file1, file2,
                         writer.sw.isNumQual)} :
           /\ loopBreaks(r.rd, arg1, arg2)
           /\ IF writer.sw.orphanReads
              THEN /\ writer' = [writer EXCEPT !.sw.dumpOrphans = TRUE]
                   /\ readers' = [r.rd EXCEPT !["r1"] = ReaderAtEof(FALSE)]
                   /\ handlePos' = [r.hp EXCEPT !["h1"] = 0]
                   /\ pcLoad' = "drain1"
              ELSE /\ writer' = writer
                   /\ readers' = r.rd
                   /\ handlePos' = r.hp
                   /\ pcLoad' = "done"
    /\ arg1' = "r1"
    /\ arg2' = "None"
    /\ arg3' = "None"
    /\ errorCount' = 0
    /\ UNCHANGED <<file1, file2, pairMode, errorTotal>>
    /\ UNCHANGED <<eightLineVars, fileTypeVars, qualCallVars, poreFilesVars, parseVars, filePairVars, qualVars, pairVars, lenVars, filesVars>>

\* the end of a pass with dumpOrphans: the second file of a pair is read
\* next, and after it the hashes are emptied; a Nanopore load then reads
\* fastq1 once more with dumpOrphans2D and empties nanopore2Dread after it
EndDrainPass ==
    /\ pcLoad \in {"drain1", "drain2", "drain2D"}
    /\ \E r \in {readBoth(readers, handlePos, arg1, arg2, arg3, pairMode, file1, file2,
                         writer.sw.isNumQual)} :
           /\ loopBreaks(r.rd, arg1, arg2)
           /\ IF pcLoad = "drain1" /\ pairMode = "other"
              THEN /\ writer' = writer
                   /\ readers' = [r.rd EXCEPT !["r2"] = ReaderAtEof(FALSE)]
                   /\ handlePos' = [r.hp EXCEPT !["h2"] = 0]
                   /\ arg1' = "r2"
                   /\ pcLoad' = "drain2"
              ELSE IF pcLoad # "drain2D" /\ writer.sw.platformString = "NANOPORE"
              THEN /\ writer' = [writer EXCEPT !.sw.dumpOrphans = FALSE,
                                     !.sw.pairedRead1 = [n \in 1..MaxName |-> NoEntry],
                                     !.sw.pairedRead2 = [n \in 1..MaxName |-> NoEntry],
                                     !.sw.dumpOrphans2D = TRUE]
                   /\ readers' = [r.rd EXCEPT !["r1"] = ReaderAtEof(FALSE)]
                   /\ handlePos' = [r.hp EXCEPT !["h1"] = 0]
                   /\ arg1' = "r1"
                   /\ pcLoad' = "drain2D"
              ELSE IF pcLoad = "drain2D"
              THEN /\ writer' = [writer EXCEPT !.sw.dumpOrphans2D = FALSE,
                                     !.sw.nanopore2Dread = [n \in 1..MaxName |-> NoEntry]]
                   /\ readers' = r.rd
                   /\ handlePos' = r.hp
                   /\ arg1' = arg1
                   /\ pcLoad' = "done"
              ELSE /\ writer' = [writer EXCEPT !.sw.dumpOrphans = FALSE,
                                     !.sw.pairedRead1 = [n \in 1..MaxName |-> NoEntry],
                                     !.sw.pairedRead2 = [n \in 1..MaxName |-> NoEntry]]
                   /\ readers' = r.rd
                   /\ handlePos' = r.hp
                   /\ arg1' = arg1
                   /\ pcLoad' = "done"
    /\ arg2' = "None"
    /\ arg3' = "None"
    /\ errorCount' = 0
    /\ UNCHANGED <<file1, file2, pairMode, errorTotal>>
    /\ UNCHANGED <<eightLineVars, fileTypeVars, qualCallVars, poreFilesVars, parseVars, filePairVars, qualVars, pairVars, lenVars, filesVars>>

LoadNext == EmitStep \/ EndMainPass \/ EndDrainPass

\* FastqSpotWriter.__init__ and the options of the command line
NewWriter(isNumQual, orphanReads, maxErrorCount) ==
    [sw |-> [isNumQual |-> isNumQual, orphanReads |-> orphanReads, dumpOrphans |-> FALSE,
             maxErrorCount |-> maxErrorCount, spotCount |-> 0,
             read1IsTechnical |-> FALSE, read2IsTechnical |-> FALSE,
             readCount |-> 0, readLengths |-> <<>>, readStarts |-> <<>>,
             readTypes |-> <<1, 1>>, lengthsProvided |-> FALSE,
             variableLengthSpecified |-> FALSE, ignoreNames |-> FALSE,
             platformString |-> "", nanopore2Donly |-> FALSE, dumpOrphans2D |-> FALSE,
             pairedRead1 |-> [n \in 1..MaxName |-> NoEntry],
             pairedRead2 |-> [n \in 1..MaxName |-> NoEntry],
             nanopore2Dread |-> [n \in 1..MaxName |-> NoEntry]],
     dst |-> [READ |-> <<>>, READ_START |-> <<>>, READ_LENGTH |-> <<>>, READ_TYPE |-> <<>>,
              QUALITY |-> <<>>, NAME |-> 0, CHANNEL |-> 0, READ_NO |-> 0],
     dst2D |-> [READ |-> <<>>, READ_START |-> <<>>, READ_LENGTH |-> <<>>, READ_TYPE |-> <<>>,
                QUALITY |-> <<>>, NAME |-> 0, CHANNEL |-> 0, READ_NO |-> 0],
     gw |-> <<>>, fatal |-> ""]

\* processFiles up to the first call of processFastqSpots, for the writer w0
\* that processArguments left
LoadStartOf(f1, f2, mode, w0) ==
    /\ file1 = f1
    /\ file2 = f2
    /\ pairMode = mode
    /\ handlePos = [h1 |-> 0, h2 |-> 0]
    /\ readers = [r1 |-> ReaderAtEof(FALSE), r2 |-> ReaderAtEof(FALSE),
                  r3 |-> ReaderAtEof(FALSE)]
    /\ arg1 = "r1"
    /\ arg2 = IF mode = "none" THEN "None" ELSE "r2"
    /\ arg3 = "None"
    /\ writer = IF w0.fatal = "" THEN setUnchangingSpotValues(w0, mode # "none") ELSE w0
    /\ errorCount = 0
    /\ errorTotal = 0
    /\ pcLoad = IF w0.fatal = "" THEN "main" ELSE "fatal"

LoadStart(f1, f2, mode, isNumQual, orphanReads, maxErrorCount) ==
    LoadStartOf(f1, f2, mode, NewWriter(isNumQual, orphanReads, maxErrorCount))

\* ------------------------------------------------------------------------
\* The lines of a four-line fastq file, and what the patterns of the Defline,
\* Seq and Qual classes say of each of them
\* ------------------------------------------------------------------------
BlankLine == ""

DeflineLines ==
    {"@R1", "@R2", "@H:1:2:3:4 1:N:0:", "@1:2:3:4 1:N:0:/1", "@H:1:2:3:4/1 1:N:0:T",
     "@H:1:2:3:4_1:N:0:1/H:1:2:3:4_2:N:0:1", "@H:1:2:3:4 2:N:0:T/2", "@GG3IVWD03F5DLB"}

SeqQualLines == {"ACGT", "T012", "+", "IIII", "II I", "40 40"}

FileLines == {BlankLine} \cup DeflineLines \cup SeqQualLines

\* deflines of the other variants: old Illumina, QIIME, barcode and read number,
\* Nanopore, read_id and barcode, newbler
VariantLines ==
    {"@H:1:2:3:4 1:N:0:0", "@H:1:2:3:4 1:N:0:0/1", "@H:1:2:3:4#0/1", "@a:5:1:2:3:1",
     "@a:1:2:3:1", "@5:1:2:3:1", "@q1 H:1:2:3:4 1:N:0:0",
     "@q1 H:1:2:3:4 1:N:0:AC orig_bc=AC new_bc=0 bc_diffs=0", "@q1 H:1:2:3:4#0/1",
     "@q1 GG3IVWD03F5DLB orig_bc=AC new_bc=0 bc_diffs=0",
     "@q1 x orig_bc=AC new_bc=0 bc_diffs=0", "@name#0/1", "@name/1", "@q read_id=r1 barcode=0",
     "@channel_1_read_2_template", "@channel_1_read_2", "@x template=t dir=f",
     "@x template=t dir=x1", "@a:5:6:1:2:1:1", "@q1 H:1:2:3:4 1:N:0:5/1_H:1:2:3:4 2:N:0:5/2",
     "@channel_1_read_2_template:a_ch1_file0_strand.fast5", "@q read_id=p::r1 barcode=0",
     "@p_1 read_id=p::r1 barcode=0", "@channel_1_read_2_twodirections", "@channel_1_read_2-2D",
     "@channel_1_read_2_2d", "@channel_1_read_2-1D", "@channel_1_read_2_complement",
     "@channel_1_read_2-complement", "@ach1_file2_2d"}

ParseLines == FileLines \cup VariantLines

\* the lines each regular expression of Defline.__init__ matches
illuminaNew ==
    {"@H:1:2:3:4 1:N:0:", "@H:1:2:3:4_1:N:0:1/H:1:2:3:4_2:N:0:1", "@H:1:2:3:4 2:N:0:T/2",
     "@H:1:2:3:4 1:N:0:0", "@H:1:2:3:4 1:N:0:0/1"}

illuminaNewNoPrefix ==
    {"@H:1:2:3:4 1:N:0:", "@1:2:3:4 1:N:0:/1", "@H:1:2:3:4_1:N:0:1/H:1:2:3:4_2:N:0:1",
     "@H:1:2:3:4 2:N:0:T/2", "@H:1:2:3:4 1:N:0:0", "@H:1:2:3:4 1:N:0:0/1"}

illuminaNewWithJunk ==
    {"@H:1:2:3:4/1 1:N:0:T", "@H:1:2:3:4_1:N:0:1/H:1:2:3:4_2:N:0:1"}

illuminaOldColon ==
    {"@H:1:2:3:4 1:N:0:", "@H:1:2:3:4/1 1:N:0:T", "@H:1:2:3:4 2:N:0:T/2", "@H:1:2:3:4 1:N:0:0",
     "@H:1:2:3:4 1:N:0:0/1", "@H:1:2:3:4#0/1", "@a:5:1:2:3:1", "@a:1:2:3:1", "@5:1:2:3:1",
     "@a:5:6:1:2:1:1"}

illuminaOldUnderscore == {}

illuminaOldNoPrefix ==
    {"@H:1:2:3:4 1:N:0:", "@1:2:3:4 1:N:0:/1", "@H:1:2:3:4/1 1:N:0:T", "@H:1:2:3:4 2:N:0:T/2",
     "@H:1:2:3:4 1:N:0:0", "@H:1:2:3:4 1:N:0:0/1", "@H:1:2:3:4#0/1", "@a:5:1:2:3:1",
     "@a:1:2:3:1", "@5:1:2:3:1", "@a:5:6:1:2:1:1"}

illuminaOldWithJunk == {}

illuminaOldWithJunk2 ==
    {"@H:1:2:3:4/1 1:N:0:T", "@H:1:2:3:4_1:N:0:1/H:1:2:3:4_2:N:0:1", "@H:1:2:3:4#0/1",
     "@a:5:1:2:3:1", "@a:5:6:1:2:1:1"}

illuminaOldBcRnOnly ==
    {"@H:1:2:3:4#0/1", "@name#0/1"}

illuminaOldBcOnly ==
    {"@H:1:2:3:4#0/1", "@name#0/1"}

illuminaOldRnOnly ==
    {"@H:1:2:3:4/1 1:N:0:T", "@H:1:2:3:4#0/1", "@name#0/1", "@name/1"}

qiimeBc ==
    {"@q1 H:1:2:3:4 1:N:0:AC orig_bc=AC new_bc=0 bc_diffs=0",
     "@q1 GG3IVWD03F5DLB orig_bc=AC new_bc=0 bc_diffs=0",
     "@q1 x orig_bc=AC new_bc=0 bc_diffs=0"}

qiimeIlluminaNew ==
    {"@q1 H:1:2:3:4 1:N:0:0", "@q1 H:1:2:3:4 1:N:0:AC orig_bc=AC new_bc=0 bc_diffs=0",
     "@q1 H:1:2:3:4 1:N:0:5/1_H:1:2:3:4 2:N:0:5/2"}

qiimeIlluminaNewPeriods == {}

qiimeIlluminaOld ==
    {"@q1 H:1:2:3:4 1:N:0:0", "@q1 H:1:2:3:4 1:N:0:AC orig_bc=AC new_bc=0 bc_diffs=0",
     "@q1 H:1:2:3:4#0/1", "@q1 H:1:2:3:4 1:N:0:5/1_H:1:2:3:4 2:N:0:5/2"}

ls454 ==
    {"@GG3IVWD03F5DLB"}

qiime454 ==
    {"@q1 GG3IVWD03F5DLB orig_bc=AC new_bc=0 bc_diffs=0"}

nanopore ==
    {"@channel_1_read_2_template", "@channel_1_read_2",
     "@channel_1_read_2_template:a_ch1_file0_strand.fast5", "@channel_1_read_2_twodirections",
     "@channel_1_read_2-2D", "@channel_1_read_2_2d", "@channel_1_read_2-1D",
     "@channel_1_read_2_complement", "@channel_1_read_2-complement"}

nanopore2 ==
    {"@ach1_file2_2d"}

nanopore3 == {}

readIdBarcode ==
    {"@q read_id=r1 barcode=0", "@q read_id=p::r1 barcode=0", "@p_1 read_id=p::r1 barcode=0"}

sangerNewbler ==
    {"@x template=t dir=f", "@x template=t dir=x1"}

undefined ==
    {"@R1", "@R2", "@H:1:2:3:4 1:N:0:", "@1:2:3:4 1:N:0:/1", "@H:1:2:3:4/1 1:N:0:T",
     "@H:1:2:3:4_1:N:0:1/H:1:2:3:4_2:N:0:1", "@H:1:2:3:4 2:N:0:T/2", "@GG3IVWD03F5DLB",
     "@H:1:2:3:4 1:N:0:0", "@H:1:2:3:4 1:N:0:0/1", "@H:1:2:3:4#0/1", "@a:5:1:2:3:1",
     "@a:1:2:3:1", "@5:1:2:3:1", "@q1 H:1:2:3:4 1:N:0:0",
     "@q1 H:1:2:3:4 1:N:0:AC orig_bc=AC new_bc=0 bc_diffs=0", "@q1 H:1:2:3:4#0/1",
     "@q1 GG3IVWD03F5DLB orig_bc=AC new_bc=0 bc_diffs=0",
     "@q1 x orig_bc=AC new_bc=0 bc_diffs=0", "@name#0/1", "@name/1", "@q read_id=r1 barcode=0",
     "@channel_1_read_2_template", "@channel_1_read_2", "@x template=t dir=f",
     "@x template=t dir=x1", "@a:5:6:1:2:1:1", "@q1 H:1:2:3:4 1:N:0:5/1_H:1:2:3:4 2:N:0:5/2",
     "@channel_1_read_2_template:a_ch1_file0_strand.fast5", "@q read_id=p::r1 barcode=0",
     "@p_1 read_id=p::r1 barcode=0", "@channel_1_read_2_twodirections", "@channel_1_read_2-2D",
     "@channel_1_read_2_2d", "@channel_1_read_2-1D", "@channel_1_read_2_complement",
     "@channel_1_read_2-complement", "@ach1_file2_2d"}

\* re.match of the pattern a slot of the Defline object holds
Matches(re, s) ==
    CASE re = "illuminaNew" -> s \in illuminaNew
      [] re = "illuminaNewNoPrefix" -> s \in illuminaNewNoPrefix
      [] re = "illuminaNewWithJunk" -> s \in illuminaNewWithJunk
      [] re = "illuminaOldColon" -> s \in illuminaOldColon
      [] re = "illuminaOldUnderscore" -> s \in illuminaOldUnderscore
      [] re = "illuminaOldNoPrefix" -> s \in illuminaOldNoPrefix
      [] re = "illuminaOldWithJunk" -> s \in illuminaOldWithJunk
      [] re = "illuminaOldWithJunk2" -> s \in illuminaOldWithJunk2
      [] re = "illuminaOldBcRnOnly" -> s \in illuminaOldBcRnOnly
      [] re = "illuminaOldBcOnly" -> s \in illuminaOldBcOnly
      [] re = "illuminaOldRnOnly" -> s \in illuminaOldRnOnly
      [] re = "qiimeBc" -> s \in qiimeBc
      [] re = "qiimeIlluminaNew" -> s \in qiimeIlluminaNew
      [] re = "qiimeIlluminaNewPeriods" -> s \in qiimeIlluminaNewPeriods
      [] re = "qiimeIlluminaOld" -> s \in qiimeIlluminaOld
      [] re = "ls454" -> s \in ls454
      [] re = "qiime454" -> s \in qiime454
      [] re = "nanopore" -> s \in nanopore
      [] re = "nanopore2" -> s \in nanopore2
      [] re = "nanopore3" -> s \in nanopore3
      [] re = "readIdBarcode" -> s \in readIdBarcode
      [] re = "sangerNewbler" -> s \in sangerNewbler
      [] re = "undefined" -> s \in undefined

\* the spot group of an ILLUMINA_NEW defline: the text after the reserved field
illuminaNewSpotGroup(s) ==
    CASE s = "@H:1:2:3:4 1:N:0:" -> ""
      [] s = "@1:2:3:4 1:N:0:/1" -> "/1"
      [] s = "@H:1:2:3:4/1 1:N:0:T" -> "T"
      [] s = "@H:1:2:3:4_1:N:0:1/H:1:2:3:4_2:N:0:1" -> "1/H:1:2:3:4_2:N:0:1"
      [] s = "@H:1:2:3:4 2:N:0:T/2" -> "T/2"
      [] s = "@H:1:2:3:4 1:N:0:0" -> "0"
      [] s = "@H:1:2:3:4 1:N:0:0/1" -> "0/1"

\* the groups of a match of an old Illumina pattern
illuminaOldGroups(re, s) ==
    CASE s = "@H:1:2:3:4 1:N:0:" ->
            [prefix |-> "H", sep1 |-> ":", lane |-> "1", sep2 |-> ":", tile |-> "2",
             sep3 |-> ":", x |-> "3", sep4 |-> ":", y |-> "4", spotGroup |-> ""]
      [] s = "@1:2:3:4 1:N:0:/1" ->
            [prefix |-> "", sep1 |-> "", lane |-> "1", sep2 |-> ":", tile |-> "2",
             sep3 |-> ":", x |-> "3", sep4 |-> ":", y |-> "4", spotGroup |-> ""]
      [] s = "@H:1:2:3:4/1 1:N:0:T" ->
            [prefix |-> "H", sep1 |-> ":", lane |-> "1", sep2 |-> ":", tile |-> "2",
             sep3 |-> ":", x |-> "3", sep4 |-> ":", y |-> "4", spotGroup |-> ""]
      [] s = "@H:1:2:3:4_1:N:0:1/H:1:2:3:4_2:N:0:1" ->
            [prefix |-> "H", sep1 |-> ":", lane |-> "1", sep2 |-> ":", tile |-> "2",
             sep3 |-> ":", x |-> "3", sep4 |-> ":", y |-> "4", spotGroup |-> ""]
      [] s = "@H:1:2:3:4 2:N:0:T/2" ->
            [prefix |-> "H", sep1 |-> ":", lane |-> "1", sep2 |-> ":", tile |-> "2",
             sep3 |-> ":", x |-> "3", sep4 |-> ":", y |-> "4", spotGroup |-> ""]
      [] s = "@H:1:2:3:4 1:N:0:0" ->
            [prefix |-> "H", sep1 |-> ":", lane |-> "1", sep2 |-> ":", tile |-> "2",
             sep3 |-> ":", x |-> "3", sep4 |-> ":", y |-> "4", spotGroup |-> ""]
      [] s = "@H:1:2:3:4 1:N:0:0/1" ->
            [prefix |-> "H", sep1 |-> ":", lane |-> "1", sep2 |-> ":", tile |-> "2",
             sep3 |-> ":", x |-> "3", sep4 |-> ":", y |-> "4", spotGroup |-> ""]
      [] s = "@H:1:2:3:4#0/1" /\ re \in {"illuminaOldColon", "illuminaOldNoPrefix"} ->
            [prefix |-> "H", sep1 |-> ":", lane |-> "1", sep2 |-> ":", tile |-> "2",
             sep3 |-> ":", x |-> "3", sep4 |-> ":", y |-> "4", spotGroup |-> "#0"]
      [] s = "@H:1:2:3:4#0/1" /\ re \in {"illuminaOldWithJunk2"} ->
            [prefix |-> "H", sep1 |-> ":", lane |-> "1", sep2 |-> ":", tile |-> "2",
             sep3 |-> ":", x |-> "3", sep4 |-> ":", y |-> "4", spotGroup |-> ""]
      [] s = "@a:5:1:2:3:1" /\ re \in {"illuminaOldColon", "illuminaOldNoPrefix"} ->
            [prefix |-> "a:5", sep1 |-> ":", lane |-> "1", sep2 |-> ":", tile |-> "2",
             sep3 |-> ":", x |-> "3", sep4 |-> ":", y |-> "1", spotGroup |-> ""]
      [] s = "@a:5:1:2:3:1" /\ re \in {"illuminaOldWithJunk2"} ->
            [prefix |-> "a", sep1 |-> ":", lane |-> "5", sep2 |-> ":", tile |-> "1",
             sep3 |-> ":", x |-> "2", sep4 |-> ":", y |-> "3", spotGroup |-> ""]
      [] s = "@a:1:2:3:1" ->
            [prefix |-> "a", sep1 |-> ":", lane |-> "1", sep2 |-> ":", tile |-> "2",
             sep3 |-> ":", x |-> "3", sep4 |-> ":", y |-> "1", spotGroup |-> ""]
      [] s = "@5:1:2:3:1" ->
            [prefix |-> "5", sep1 |-> ":", lane |-> "1", sep2 |-> ":", tile |-> "2",
             sep3 |-> ":", x |-> "3", sep4 |-> ":", y |-> "1", spotGroup |-> ""]
      [] s = "@a:5:6:1:2:1:1" /\ re \in {"illuminaOldColon", "illuminaOldNoPrefix"} ->
            [prefix |-> "a:5:6", sep1 |-> ":", lane |-> "1", sep2 |-> ":", tile |-> "2",
             sep3 |-> ":", x |-> "1", sep4 |-> ":", y |-> "1", spotGroup |-> ""]
      [] s = "@a:5:6:1:2:1:1" /\ re \in {"illuminaOldWithJunk2"} ->
            [prefix |-> "a", sep1 |-> ":", lane |-> "5", sep2 |-> ":", tile |-> "6",
             sep3 |-> ":", x |-> "1", sep4 |-> ":", y |-> "2", spotGroup |-> ""]

\* re.split of the prefix at the separator
split(sep, prefix) ==
    CASE sep = ":" /\ prefix = "5" -> <<"5">>
      [] sep = ":" /\ prefix = "H" -> <<"H">>
      [] sep = ":" /\ prefix = "a" -> <<"a">>
      [] sep = ":" /\ prefix = "a:5" -> <<"a", "5">>
      [] sep = ":" /\ prefix = "a:5:6" -> <<"a", "5", "6">>

\* str.isdigit of a chunk of the prefix
isdigit(str) == str \in {"5", "6"}

\* int of the text of a coordinate
int(str) ==
    CASE str = "1" -> 1
      [] str = "2" -> 2
      [] str = "3" -> 3
      [] str = "4" -> 4

\* the prefix less one trailing number: re.match of "([!-~]*?)(sep)(\d+)$"
discardOne(sep, prefix) ==
    CASE sep = ":" /\ prefix = "5" -> [matched |-> FALSE]
      [] sep = ":" /\ prefix = "H" -> [matched |-> FALSE]
      [] sep = ":" /\ prefix = "a" -> [matched |-> FALSE]
      [] sep = ":" /\ prefix = "a:5" -> [matched |-> TRUE, prefix |-> "a", sep0 |-> ":",
            lane |-> "5"]
      [] sep = ":" /\ prefix = "a:5:6" -> [matched |-> TRUE, prefix |-> "a:5", sep0 |-> ":",
            lane |-> "6"]

\* the prefix less two trailing numbers: re.match of "([!-~]*?)(sep)(\d+)(sep)(\d+)(\s+|$)"
discardTwo(sep, prefix) ==
    CASE sep = ":" /\ prefix = "5" -> [matched |-> FALSE]
      [] sep = ":" /\ prefix = "H" -> [matched |-> FALSE]
      [] sep = ":" /\ prefix = "a" -> [matched |-> FALSE]
      [] sep = ":" /\ prefix = "a:5" -> [matched |-> FALSE]
      [] sep = ":" /\ prefix = "a:5:6" -> [matched |-> TRUE, prefix |-> "a", sep_1 |-> ":",
            lane |-> "5", sep0 |-> ":", tile |-> "6"]

\* the groups of a match of a QIIME new Illumina pattern
qiimeIlluminaNewGroups(re, s) ==
    CASE s = "@q1 H:1:2:3:4 1:N:0:0" ->
            [prefix |-> "H", sep1 |-> ":", lane |-> "1", sep2 |-> ":", tile |-> "2",
             sep3 |-> ":", x |-> "3", sep4 |-> ":", y |-> "4", spotGroup |-> "0"]
      [] s = "@q1 H:1:2:3:4 1:N:0:AC orig_bc=AC new_bc=0 bc_diffs=0" ->
            [prefix |-> "H", sep1 |-> ":", lane |-> "1", sep2 |-> ":", tile |-> "2",
             sep3 |-> ":", x |-> "3", sep4 |-> ":", y |-> "4", spotGroup |-> "AC"]
      [] s = "@q1 H:1:2:3:4 1:N:0:5/1_H:1:2:3:4 2:N:0:5/2" ->
            [prefix |-> "H", sep1 |-> ":", lane |-> "1", sep2 |-> ":", tile |-> "2",
             sep3 |-> ":", x |-> "3", sep4 |-> ":", y |-> "4", spotGroup |-> "5/1_H:1:2:3:4"]

\* the groups of a match of the QIIME old Illumina pattern
qiimeIlluminaOldGroups(s) ==
    CASE s = "@q1 H:1:2:3:4 1:N:0:0" ->
            [prefix |-> "H", sep1 |-> ":", lane |-> "1", sep2 |-> ":", tile |-> "2",
             sep3 |-> ":", x |-> "3", sep4 |-> ":", y |-> "4", spotGroup |-> ""]
      [] s = "@q1 H:1:2:3:4 1:N:0:AC orig_bc=AC new_bc=0 bc_diffs=0" ->
            [prefix |-> "H", sep1 |-> ":", lane |-> "1", sep2 |-> ":", tile |-> "2",
             sep3 |-> ":", x |-> "3", sep4 |-> ":", y |-> "4", spotGroup |-> ""]
      [] s = "@q1 H:1:2:3:4#0/1" ->
            [prefix |-> "H", sep1 |-> ":", lane |-> "1", sep2 |-> ":", tile |-> "2",
             sep3 |-> ":", x |-> "3", sep4 |-> ":", y |-> "4", spotGroup |-> "0"]
      [] s = "@q1 H:1:2:3:4 1:N:0:5/1_H:1:2:3:4 2:N:0:5/2" ->
            [prefix |-> "H", sep1 |-> ":", lane |-> "1", sep2 |-> ":", tile |-> "2",
             sep3 |-> ":", x |-> "3", sep4 |-> ":", y |-> "4", spotGroup |-> ""]

\* the groups of a match of the barcode correction pattern: the name and new_bc
qiimeBcGroups(s) ==
    CASE s = "@q1 H:1:2:3:4 1:N:0:AC orig_bc=AC new_bc=0 bc_diffs=0" ->
            [name |-> "q1", spotGroup |-> "0"]
      [] s = "@q1 GG3IVWD03F5DLB orig_bc=AC new_bc=0 bc_diffs=0" ->
            [name |-> "q1", spotGroup |-> "0"]
      [] s = "@q1 x orig_bc=AC new_bc=0 bc_diffs=0" ->
            [name |-> "q1", spotGroup |-> "0"]

\* the groups of a match of the QIIME 454 pattern
qiime454Groups(s) ==
    CASE s = "@q1 GG3IVWD03F5DLB orig_bc=AC new_bc=0 bc_diffs=0" ->
            [dateAndHash454 |-> "GG3IVWD", region454 |-> "03", xy454 |-> "F5DLB"]

\* the groups of a match of a barcode and read number pattern
illuminaOldBcRnGroups(re, s) ==
    CASE s = "@H:1:2:3:4/1 1:N:0:T" ->
            [name |-> "H:1:2:3:4", sep1 |-> "/", spotGroup |-> "1"]
      [] s = "@H:1:2:3:4#0/1" /\ re \in {"illuminaOldBcRnOnly"} ->
            [name |-> "H:1:2:3:4", sep1 |-> "#", spotGroup |-> "0"]
      [] s = "@H:1:2:3:4#0/1" /\ re \in {"illuminaOldBcOnly"} ->
            [name |-> "H:1:2:3:4", sep1 |-> "#", spotGroup |-> "0/1"]
      [] s = "@H:1:2:3:4#0/1" /\ re \in {"illuminaOldRnOnly"} ->
            [name |-> "H:1:2:3:4#0", sep1 |-> "/", spotGroup |-> "1"]
      [] s = "@name#0/1" /\ re \in {"illuminaOldBcRnOnly"} ->
            [name |-> "name", sep1 |-> "#", spotGroup |-> "0"]
      [] s = "@name#0/1" /\ re \in {"illuminaOldBcOnly"} ->
            [name |-> "name", sep1 |-> "#", spotGroup |-> "0/1"]
      [] s = "@name#0/1" /\ re \in {"illuminaOldRnOnly"} ->
            [name |-> "name#0", sep1 |-> "/", spotGroup |-> "1"]
      [] s = "@name/1" ->
            [name |-> "name", sep1 |-> "/", spotGroup |-> "1"]

\* the groups of a match of a Nanopore pattern
nanoporeGroups(re, s) ==
    CASE s = "@channel_1_read_2_template" ->
            [poreStart |-> "channel_", channel |-> "1", poreMid |-> "_read_", readNo |-> "2",
             poreEnd |-> "", poreRead |-> "_template", poreFile |-> "None"]
      [] s = "@channel_1_read_2" ->
            [poreStart |-> "channel_", channel |-> "1", poreMid |-> "_read_", readNo |-> "2",
             poreEnd |-> "", poreRead |-> "None", poreFile |-> "None"]
      [] s = "@channel_1_read_2_template:a_ch1_file0_strand.fast5" ->
            [poreStart |-> "channel_", channel |-> "1", poreMid |-> "_read_", readNo |-> "2",
             poreEnd |-> "", poreRead |-> "_template",
             poreFile |-> ":a_ch1_file0_strand.fast5"]
      [] s = "@channel_1_read_2_twodirections" ->
            [poreStart |-> "channel_", channel |-> "1", poreMid |-> "_read_", readNo |-> "2",
             poreEnd |-> "", poreRead |-> "_twodirections", poreFile |-> "None"]
      [] s = "@channel_1_read_2-2D" ->
            [poreStart |-> "channel_", channel |-> "1", poreMid |-> "_read_", readNo |-> "2",
             poreEnd |-> "", poreRead |-> "-2D", poreFile |-> "None"]
      [] s = "@channel_1_read_2_2d" ->
            [poreStart |-> "channel_", channel |-> "1", poreMid |-> "_read_", readNo |-> "2",
             poreEnd |-> "", poreRead |-> "_2d", poreFile |-> "None"]
      [] s = "@channel_1_read_2-1D" ->
            [poreStart |-> "channel_", channel |-> "1", poreMid |-> "_read_", readNo |-> "2",
             poreEnd |-> "", poreRead |-> "-1D", poreFile |-> "None"]
      [] s = "@channel_1_read_2_complement" ->
            [poreStart |-> "channel_", channel |-> "1", poreMid |-> "_read_", readNo |-> "2",
             poreEnd |-> "", poreRead |-> "_complement", poreFile |-> "None"]
      [] s = "@channel_1_read_2-complement" ->
            [poreStart |-> "channel_", channel |-> "1", poreMid |-> "_read_", readNo |-> "2",
             poreEnd |-> "", poreRead |-> "-complement", poreFile |-> "None"]
      [] s = "@ach1_file2_2d" ->
            [poreStart |-> "ach", channel |-> "1", poreMid |-> "_file", readNo |-> "2",
             poreEnd |-> "", poreRead |-> "_2d", poreFile |-> "None"]

\* re.split of the name of the fast5 file at '/' and '\'
poreFileChunks(poreFile) ==
    CASE poreFile = ":a_ch1_file0_strand.fast5" -> <<":a_ch1_file0_strand.fast5">>

\* the groups of a match of the read_id and barcode pattern
readIdBarcodeGroups(s) ==
    CASE s = "@q read_id=r1 barcode=0" ->
            [qiimeName |-> "q", prefix |-> "", name |-> "r1", spotGroup |-> "0"]
      [] s = "@q read_id=p::r1 barcode=0" ->
            [qiimeName |-> "q", prefix |-> "p::", name |-> "r1", spotGroup |-> "0"]
      [] s = "@p_1 read_id=p::r1 barcode=0" ->
            [qiimeName |-> "p_1", prefix |-> "p::", name |-> "r1", spotGroup |-> "0"]

\* the groups of a match of the newbler pattern: the template and the direction
sangerNewblerGroups(s) ==
    CASE s = "@x template=t dir=f" ->
            [name |-> "t", dir |-> "f"]
      [] s = "@x template=t dir=x1" ->
            [name |-> "t", dir |-> "x1"]

\* name of an undefined defline: the non-blank characters after '@' or '>'
undefinedName(s) ==
    CASE s = "@R1" -> "R1"
      [] s = "@R2" -> "R2"
      [] s = "@H:1:2:3:4 1:N:0:" -> "H:1:2:3:4"
      [] s = "@1:2:3:4 1:N:0:/1" -> "1:2:3:4"
      [] s = "@H:1:2:3:4/1 1:N:0:T" -> "H:1:2:3:4/1"
      [] s = "@H:1:2:3:4_1:N:0:1/H:1:2:3:4_2:N:0:1" -> "H:1:2:3:4_1:N:0:1/H:1:2:3:4_2:N:0:1"
      [] s = "@H:1:2:3:4 2:N:0:T/2" -> "H:1:2:3:4"
      [] s = "@GG3IVWD03F5DLB" -> "GG3IVWD03F5DLB"
      [] s = "@H:1:2:3:4 1:N:0:0" -> "H:1:2:3:4"
      [] s = "@H:1:2:3:4 1:N:0:0/1" -> "H:1:2:3:4"
      [] s = "@H:1:2:3:4#0/1" -> "H:1:2:3:4#0/1"
      [] s = "@a:5:1:2:3:1" -> "a:5:1:2:3:1"
      [] s = "@a:1:2:3:1" -> "a:1:2:3:1"
      [] s = "@5:1:2:3:1" -> "5:1:2:3:1"
      [] s = "@q1 H:1:2:3:4 1:N:0:0" -> "q1"
      [] s = "@q1 H:1:2:3:4 1:N:0:AC orig_bc=AC new_bc=0 bc_diffs=0" -> "q1"
      [] s = "@q1 H:1:2:3:4#0/1" -> "q1"
      [] s = "@q1 GG3IVWD03F5DLB orig_bc=AC new_bc=0 bc_diffs=0" -> "q1"
      [] s = "@q1 x orig_bc=AC new_bc=0 bc_diffs=0" -> "q1"
      [] s = "@name#0/1" -> "name#0/1"
      [] s = "@name/1" -> "name/1"
      [] s = "@q read_id=r1 barcode=0" -> "q"
      [] s = "@channel_1_read_2_template" -> "channel_1_read_2_template"
      [] s = "@channel_1_read_2" -> "channel_1_read_2"
      [] s = "@x template=t dir=f" -> "x"
      [] s = "@x template=t dir=x1" -> "x"
      [] s = "@a:5:6:1:2:1:1" -> "a:5:6:1:2:1:1"
      [] s = "@q1 H:1:2:3:4 1:N:0:5/1_H:1:2:3:4 2:N:0:5/2" -> "q1"
      [] s = "@channel_1_read_2_template:a_ch1_file0_strand.fast5" -> "channel_1_read_2_template:a_ch1_file0_strand.fast5"
      [] s = "@q read_id=p::r1 barcode=0" -> "q"
      [] s = "@p_1 read_id=p::r1 barcode=0" -> "p_1"
      [] s = "@channel_1_read_2_twodirections" -> "channel_1_read_2_twodirections"
      [] s = "@channel_1_read_2-2D" -> "channel_1_read_2-2D"
      [] s = "@channel_1_read_2_2d" -> "channel_1_read_2_2d"
      [] s = "@channel_1_read_2-1D" -> "channel_1_read_2-1D"
      [] s = "@channel_1_read_2_complement" -> "channel_1_read_2_complement"
      [] s = "@channel_1_read_2-complement" -> "channel_1_read_2-complement"
      [] s = "@ach1_file2_2d" -> "ach1_file2_2d"

\* the characters of a text; a group that took no part in a match is None,
\* which is no text: it has one element, and that is no character
chars(str) ==
    CASE str = "" -> <<>>
      [] str = "None" -> <<"None">>
      [] str = "#0" -> <<"#", "0">>
      [] str = "/1" -> <<"/", "1">>
      [] str = "0" -> <<"0">>
      [] str = "0/1" -> <<"0", "/", "1">>
      [] str = "1" -> <<"1">>
      [] str = "1/H:1:2:3:4_2:N:0:1" -> <<"1", "/", "H", ":", "1", ":", "2", ":", "3", ":",
            "4", "_", "2", ":", "N", ":", "0", ":", "1">>
      [] str = "1:2:3:4" -> <<"1", ":", "2", ":", "3", ":", "4">>
      [] str = "5/1_H:1:2:3:4" -> <<"5", "/", "1", "_", "H", ":", "1", ":", "2", ":", "3", ":",
            "4">>
      [] str = ":a_ch1_file0_strand.fast5" -> <<":", "a", "_", "c", "h", "1", "_", "f", "i",
            "l", "e", "0", "_", "s", "t", "r", "a", "n", "d", ".", "f", "a", "s", "t", "5">>
      [] str = "AC" -> <<"A", "C">>
      [] str = "H:1:2:3:4" -> <<"H", ":", "1", ":", "2", ":", "3", ":", "4">>
      [] str = "T" -> <<"T">>
      [] str = "T/2" -> <<"T", "/", "2">>
      [] str = "_ch1_" -> <<"_", "c", "h", "1", "_">>
      [] str = "f" -> <<"f">>
      [] str = "p::" -> <<"p", ":", ":">>
      [] str = "p_1" -> <<"p", "_", "1">>
      [] str = "q" -> <<"q">>
      [] str = "x1" -> <<"x", "1">>

\* name of an ILLUMINA_NEW defline: prefix, lane, tile, x and y with their separators
illuminaNewName(s) == IF s = "@1:2:3:4 1:N:0:/1" THEN "1:2:3:4" ELSE "H:1:2:3:4"

\* name of a 454 defline: prefix, date and hash, region, xy
ls454Name(s) == "GG3IVWD03F5DLB"

\* str.find: where needle first starts in hay, counted from 0, or -1
find(hay, needle) ==
    LET at == {i \in 0..(Len(hay) - Len(needle)) : SubSeq(hay, i + 1, i + Len(needle)) = needle}
    IN  IF at = {} THEN -1 ELSE CHOOSE i \in at : \A j \in at : i <= j

\* str.rfind: where needle last starts in hay, counted from 0, or -1
rfind(hay, needle) ==
    LET at == {i \in 0..(Len(hay) - Len(needle)) : SubSeq(hay, i + 1, i + Len(needle)) = needle}
    IN  IF at = {} THEN -1 ELSE CHOOSE i \in at : \A j \in at : i >= j

\* where a bound of a slice falls in a text of n characters: a negative bound
\* counts from the end
sliceBound(n, b) == IF b < 0 THEN (IF n + b < 0 THEN 0 ELSE n + b) ELSE (IF b > n THEN n ELSE b)

\* the slice str[a:b]
slice(str, a, b) == SubSeq(str, sliceBound(Len(str), a) + 1, sliceBound(Len(str), b))

\* re.search of "/[1234]$"
endsWithReadNum(str) ==
    /\ Len(str) >= 2
    /\ str[Len(str) - 1] = "/"
    /\ str[Len(str)] \in {"1", "2", "3", "4"}

\* re.search of "/[12]"
holdsReadNum(str) ==
    \E i \in 1..(Len(str) - 1) : str[i] = "/" /\ str[i + 1] \in {"1", "2"}

\* the spot group is longer than the name and holds it (a doubled-up defline)
spotGroupHasName(s) ==
    /\ Len(chars(illuminaNewSpotGroup(s))) > Len(illuminaNewName(s))
    /\ find(chars(illuminaNewSpotGroup(s)), chars(illuminaNewName(s))) # -1

\* str.find of the name in the spot group does not return -1
spotGroupFindsName(s) == find(chars(illuminaNewSpotGroup(s)), chars(illuminaNewName(s))) # -1

\* the spot group ends with a read number, "/[1234]$"
spotGroupHasReadNum(s) == endsWithReadNum(chars(illuminaNewSpotGroup(s)))

\* the name of the file of a reader, and the read type its name tells
FileNames == {"reads.fastq", "reads.template.fastq"}

\* re.search of the escaped part in the name of the file
filenameHolds(filename, part) == filename = "reads.template.fastq" /\ part = ".template."

\* ------------------------------------------------------------------------
\* class Defline: the classifier of defline variants
\* ------------------------------------------------------------------------
None == 0
ILLUMINA_NEW == 1
ILLUMINA_OLD == 2
QIIME_ILLUMINA_NEW == 5
QIIME_ILLUMINA_NEW_BC == 6
ILLUMINA_NEW_DOUBLE == 7
LS454 == 8
UNDEFINED == 9
ILLUMINA_OLD_BC_RN == 10
QIIME_ILLUMINA_OLD == 12
QIIME_ILLUMINA_OLD_BC == 13
QIIME_454 == 14
QIIME_454_BC == 15
QIIME_ILLUMINA_NEW_DBL == 16
QIIME_ILLUMINA_NEW_DBL_BC == 17
QIIME_GENERIC == 18
READID_BARCODE == 19
ILLUMINA_NEW_OLD == 20
NANOPORE == 21
SANGER_NEWBLER == 24

IlluminaNewTypes == {ILLUMINA_NEW, ILLUMINA_NEW_DOUBLE, ILLUMINA_NEW_OLD}

QiimeIlluminaNewTypes ==
    {QIIME_ILLUMINA_NEW, QIIME_ILLUMINA_NEW_BC, QIIME_ILLUMINA_NEW_DBL, QIIME_ILLUMINA_NEW_DBL_BC}

\* Defline(None); "parsed" is history: one entry for each call of parseDeflineString.
\* "abort" tells how a call ended that did not return: "exit" after
\* outputErrorAndExit, "raise" after an exception
NewDefline ==
    [deflineType |-> None, deflineStringOrig |-> "", saveDeflineType |-> TRUE, name |-> "",
     platform |-> "NotSet", isValid |-> FALSE, illuminaNew |-> "illuminaNew",
     illuminaOld |-> "None", illuminaOldBcRn |-> "None",
     qiimeIlluminaNew |-> "qiimeIlluminaNew", nanopore |-> "nanopore",
     spotGroup |-> <<>>, numDiscards |-> 0, filename |-> "", abort |-> "",
     poreRead |-> "", parsed |-> <<>>]

reset(d) ==
    [d EXCEPT !.deflineStringOrig = "", !.name = "", !.isValid = TRUE, !.spotGroup = <<>>,
              !.poreRead = ""]

\* "if not self.deflineType and self.saveDeflineType"
Retain(d) == d.deflineType = None /\ d.saveDeflineType

\* a spot group of "0" is no spot group
zeroIsNone(spotGroup) == IF spotGroup = <<"0">> THEN <<>> ELSE spotGroup

\* the ILLUMINA_NEW branch of parseDeflineString
parseIlluminaNew(d, s) ==
    LET foundRE == IF Matches(d.illuminaNew, s) THEN d.illuminaNew
                   ELSE IF s \in illuminaNewNoPrefix THEN "illuminaNewNoPrefix"
                   ELSE "illuminaNewWithJunk"
        m  == IF d.deflineType # None THEN Matches(d.illuminaNew, s) ELSE Matches(foundRE, s)
        d1 == IF d.deflineType = None /\ d.saveDeflineType
              THEN [d EXCEPT !.illuminaNew = foundRE, !.platform = "ILLUMINA"]
              ELSE d
        d2 == [d1 EXCEPT !.name = illuminaNewName(s),
                         !.spotGroup = zeroIsNone(chars(illuminaNewSpotGroup(s)))]
        start == find(d2.spotGroup, chars(d2.name))
        d3 == IF d2.deflineType = ILLUMINA_NEW_DOUBLE
                 \/ (d2.deflineType = None /\ spotGroupHasName(s))
              THEN IF spotGroupFindsName(s)
                   THEN [d2 EXCEPT !.spotGroup = slice(d2.spotGroup, 0, start - 1),
                                   !.deflineType = IF d2.saveDeflineType
                                                   THEN ILLUMINA_NEW_DOUBLE ELSE @]
                   ELSE d2
              ELSE IF d2.deflineType = ILLUMINA_NEW_OLD
                      \/ (d2.deflineType = None /\ spotGroupHasReadNum(s))
              THEN [d2 EXCEPT !.spotGroup = slice(d2.spotGroup, 0, Len(d2.spotGroup) - 2),
                              !.deflineType = IF d2.saveDeflineType
                                              THEN ILLUMINA_NEW_OLD ELSE @]
              ELSE d2
    IN  IF ~m THEN [d1 EXCEPT !.isValid = FALSE]
        ELSE IF d3.deflineType = None /\ d3.saveDeflineType
        THEN [d3 EXCEPT !.deflineType = ILLUMINA_NEW]
        ELSE d3

\* countExtraNumbersInIllumina: how many trailing numbers of the prefix to discard
countExtraNumbersInIllumina(sep, prefix, x, y) ==
    LET prefixChunks == split(sep, prefix)
        prefixChunksLen == Len(prefixChunks)
        numCount == (IF isdigit(prefixChunks[prefixChunksLen]) THEN 1 ELSE 0)
                    + (IF prefixChunksLen > 1 /\ isdigit(prefixChunks[prefixChunksLen - 1])
                       THEN 1 ELSE 0)
    IN  IF numCount > 0 /\ int(y) < 3
        THEN IF numCount = 2 /\ int(x) < 3 THEN 2 ELSE 1
        ELSE 0

\* the pattern of the first old Illumina defline
illuminaOldFound(s) ==
    IF s \in illuminaOldWithJunk THEN "illuminaOldWithJunk"
    ELSE IF s \in illuminaOldColon THEN "illuminaOldColon"
    ELSE IF s \in illuminaOldUnderscore THEN "illuminaOldUnderscore"
    ELSE IF s \in illuminaOldWithJunk2 THEN "illuminaOldWithJunk2"
    ELSE "illuminaOldNoPrefix"

\* '#' removed from the front of the spot group, and "0" made none
illuminaOldSpotGroup(spotGroup) ==
    zeroIsNone(IF spotGroup \notin {"None", ""} THEN Tail(chars(spotGroup)) ELSE chars(spotGroup))

\* the end of the ILLUMINA_OLD branch: the spot group, and the variant retained
illuminaOldNamed(d, foundRE, g, name) ==
    IF Retain(d)
    THEN [d EXCEPT !.name = name, !.spotGroup = illuminaOldSpotGroup(g.spotGroup),
                   !.illuminaOld = foundRE, !.platform = "ILLUMINA",
                   !.deflineType = ILLUMINA_OLD]
    ELSE [d EXCEPT !.name = name, !.spotGroup = illuminaOldSpotGroup(g.spotGroup)]

\* numDiscards == 1: m2.groups() raises when the prefix does not end in a number
illuminaOldDiscardOne(d, foundRE, g, m2) ==
    IF ~m2.matched THEN [d EXCEPT !.abort = "raise"]
    ELSE illuminaOldNamed(d, foundRE, g,
                          m2.prefix \o m2.sep0 \o m2.lane \o g.sep1 \o g.lane \o g.sep2
                          \o g.tile \o g.sep3 \o g.x)

\* numDiscards == 2: m2.groups() raises when the prefix does not end in two numbers
illuminaOldDiscardTwo(d, foundRE, g, m2) ==
    IF ~m2.matched THEN [d EXCEPT !.abort = "raise"]
    ELSE illuminaOldNamed(d, foundRE, g,
                          m2.prefix \o m2.sep_1 \o m2.lane \o m2.sep0 \o m2.tile \o g.sep1
                          \o g.lane \o g.sep2 \o g.tile)

\* the extra numbers discarded and the name set
illuminaOldDiscards(d, foundRE, g) ==
    IF d.numDiscards = 1 THEN illuminaOldDiscardOne(d, foundRE, g, discardOne(g.sep4, g.prefix))
    ELSE IF d.numDiscards = 2
    THEN illuminaOldDiscardTwo(d, foundRE, g, discardTwo(g.sep4, g.prefix))
    ELSE IF g.prefix # ""
    THEN illuminaOldNamed(d, foundRE, g,
                          g.prefix \o g.sep1 \o g.lane \o g.sep2 \o g.tile \o g.sep3 \o g.x
                          \o g.sep4 \o g.y)
    ELSE illuminaOldNamed(d, foundRE, g,
                          g.lane \o g.sep2 \o g.tile \o g.sep3 \o g.x \o g.sep4 \o g.y)

\* the number of discards is determined the first time through
illuminaOldMatched(d, foundRE, g) ==
    IF d.deflineType = None /\ g.prefix # ""
    THEN illuminaOldDiscards(
             [d EXCEPT !.numDiscards = countExtraNumbersInIllumina(g.sep4, g.prefix, g.x, g.y)],
             foundRE, g)
    ELSE illuminaOldDiscards(d, foundRE, g)

illuminaOldWith(d, s, foundRE) ==
    IF foundRE = "None" \/ ~Matches(foundRE, s) THEN [d EXCEPT !.isValid = FALSE]
    ELSE illuminaOldMatched(d, foundRE, illuminaOldGroups(foundRE, s))

\* the ILLUMINA_OLD branch of parseDeflineString
parseIlluminaOld(d, s) ==
    illuminaOldWith(d, s, IF d.deflineType # None THEN d.illuminaOld ELSE illuminaOldFound(s))

\* the barcode correction of a QIIME defline: new_bc becomes the spot group
qiimeBcChecked(d, s) == d.deflineType = None /\ s \in qiimeBc

\* the doubled-up check of the QIIME_ILLUMINA_NEW branch, and the variant retained
qiimeIlluminaNewDoubled(d, name, spotGroup, bc) ==
    LET start == find(spotGroup, chars(name))
        doubled == \/ d.deflineType \in {QIIME_ILLUMINA_NEW_DBL, QIIME_ILLUMINA_NEW_DBL_BC}
                   \/ (d.deflineType = None /\ Len(spotGroup) > Len(name) /\ start # -1)
        cut == slice(spotGroup, 0, start - 1)
        sg == IF doubled /\ start # -1
              THEN (IF holdsReadNum(cut) THEN slice(cut, 0, Len(cut) - 2) ELSE cut)
              ELSE spotGroup
    IN  [d EXCEPT !.name = name, !.spotGroup = sg,
                  !.deflineType = IF ~Retain(d) THEN @
                                  ELSE IF doubled /\ start # -1 THEN QIIME_ILLUMINA_NEW_DBL
                                  ELSE IF bc THEN QIIME_ILLUMINA_NEW_BC
                                  ELSE QIIME_ILLUMINA_NEW]

qiimeIlluminaNewMatched(d, s, g) ==
    IF d.deflineType = QIIME_ILLUMINA_NEW_BC /\ s \notin qiimeBc
    THEN [d EXCEPT !.isValid = FALSE]
    ELSE IF d.deflineType = QIIME_ILLUMINA_NEW_BC \/ qiimeBcChecked(d, s)
    THEN qiimeIlluminaNewDoubled(d, g.prefix \o g.sep1 \o g.lane \o g.sep2 \o g.tile \o g.sep3
                                    \o g.x \o g.sep4 \o g.y,
                                 chars(qiimeBcGroups(s).spotGroup), TRUE)
    ELSE qiimeIlluminaNewDoubled(d, g.prefix \o g.sep1 \o g.lane \o g.sep2 \o g.tile \o g.sep3
                                    \o g.x \o g.sep4 \o g.y,
                                 chars(g.spotGroup), FALSE)

qiimeIlluminaNewWith(d, s, foundRE) ==
    IF ~Matches(foundRE, s) THEN [d EXCEPT !.isValid = FALSE]
    ELSE qiimeIlluminaNewMatched(d, s, qiimeIlluminaNewGroups(foundRE, s))

\* the QIIME_ILLUMINA_NEW branch of parseDeflineString
parseQiimeIlluminaNew(d, s) ==
    IF d.deflineType # None THEN qiimeIlluminaNewWith(d, s, d.qiimeIlluminaNew)
    ELSE IF Matches(d.qiimeIlluminaNew, s)
    THEN qiimeIlluminaNewWith(IF d.saveDeflineType THEN [d EXCEPT !.platform = "ILLUMINA"]
                              ELSE d, s, d.qiimeIlluminaNew)
    ELSE qiimeIlluminaNewWith(IF d.saveDeflineType
                              THEN [d EXCEPT !.qiimeIlluminaNew = "qiimeIlluminaNewPeriods",
                                             !.platform = "ILLUMINA"]
                              ELSE d, s, "qiimeIlluminaNewPeriods")

\* a branch with one pattern: LS454 and UNDEFINED
parseOnePattern(d, s, type, re, name, platform) ==
    IF ~Matches(re, s) THEN [d EXCEPT !.isValid = FALSE]
    ELSE IF d.deflineType = None /\ d.saveDeflineType
    THEN [d EXCEPT !.name = name, !.deflineType = type, !.platform = platform]
    ELSE [d EXCEPT !.name = name]

\* a QIIME branch with one pattern: the variant retained tells whether the first
\* defline had a barcode correction
parseQiime(d, s, name, spotGroup, type, typeBc, platform) ==
    IF d.deflineType = typeBc /\ s \notin qiimeBc THEN [d EXCEPT !.isValid = FALSE]
    ELSE IF d.deflineType = typeBc \/ qiimeBcChecked(d, s)
    THEN IF Retain(d)
         THEN [d EXCEPT !.name = name, !.spotGroup = chars(qiimeBcGroups(s).spotGroup),
                        !.deflineType = typeBc, !.platform = platform]
         ELSE [d EXCEPT !.name = name, !.spotGroup = chars(qiimeBcGroups(s).spotGroup)]
    ELSE IF Retain(d)
    THEN [d EXCEPT !.name = name, !.spotGroup = spotGroup, !.deflineType = type,
                   !.platform = platform]
    ELSE [d EXCEPT !.name = name, !.spotGroup = spotGroup]

qiimeIlluminaOldMatched(d, s, g) ==
    parseQiime(d, s,
               g.prefix \o g.sep1 \o g.lane \o g.sep2 \o g.tile \o g.sep3 \o g.x \o g.sep4
               \o g.y,
               chars(g.spotGroup), QIIME_ILLUMINA_OLD, QIIME_ILLUMINA_OLD_BC, "ILLUMINA")

\* the QIIME_ILLUMINA_OLD branch of parseDeflineString
parseQiimeIlluminaOld(d, s) ==
    IF s \notin qiimeIlluminaOld THEN [d EXCEPT !.isValid = FALSE]
    ELSE qiimeIlluminaOldMatched(d, s, qiimeIlluminaOldGroups(s))

qiime454Matched(d, s, g) ==
    parseQiime(d, s, g.dateAndHash454 \o g.region454 \o g.xy454, d.spotGroup,
               QIIME_454, QIIME_454_BC, "LS454")

\* the QIIME_454 branch of parseDeflineString
parseQiime454(d, s) ==
    IF s \notin qiime454 THEN [d EXCEPT !.isValid = FALSE]
    ELSE qiime454Matched(d, s, qiime454Groups(s))

\* the pattern of the first defline with a barcode or a read number only
illuminaOldBcRnFound(s) ==
    IF s \in illuminaOldBcRnOnly THEN "illuminaOldBcRnOnly"
    ELSE IF s \in illuminaOldBcOnly THEN "illuminaOldBcOnly"
    ELSE "illuminaOldRnOnly"

\* without '#' the group after the name is the read number, and there is no spot group
illuminaOldBcRnMatched(d, foundRE, g) ==
    LET spotGroup == IF g.sep1 = "#" THEN zeroIsNone(chars(g.spotGroup)) ELSE chars("None")
    IN  IF Retain(d)
        THEN [d EXCEPT !.name = g.name, !.spotGroup = spotGroup,
                       !.illuminaOldBcRn = foundRE, !.deflineType = ILLUMINA_OLD_BC_RN,
                       !.platform = "UNDEFINED"]
        ELSE [d EXCEPT !.name = g.name, !.spotGroup = spotGroup]

illuminaOldBcRnWith(d, s, foundRE) ==
    IF foundRE = "None" \/ ~Matches(foundRE, s) THEN [d EXCEPT !.isValid = FALSE]
    ELSE illuminaOldBcRnMatched(d, foundRE, illuminaOldBcRnGroups(foundRE, s))

\* the ILLUMINA_OLD_BC_RN branch of parseDeflineString
parseIlluminaOldBcRn(d, s) ==
    illuminaOldBcRnWith(d, s, IF d.deflineType # None THEN d.illuminaOldBcRn
                              ELSE illuminaOldBcRnFound(s))

qiimeGenericMatched(d, g) ==
    IF Retain(d)
    THEN [d EXCEPT !.name = g.name, !.spotGroup = chars(g.spotGroup),
                   !.deflineType = QIIME_GENERIC, !.platform = "UNDEFINED"]
    ELSE [d EXCEPT !.name = g.name, !.spotGroup = chars(g.spotGroup)]

\* the QIIME_GENERIC branch of parseDeflineString
parseQiimeGeneric(d, s) ==
    IF s \notin qiimeBc THEN [d EXCEPT !.isValid = FALSE]
    ELSE qiimeGenericMatched(d, qiimeBcGroups(s))

\* the pattern of the first Nanopore defline
nanoporeFound(d, s) ==
    IF Matches(d.nanopore, s) THEN d.nanopore
    ELSE IF s \in nanopore2 THEN "nanopore2"
    ELSE "nanopore3"

\* the name of the fast5 file without its path
poreFileName(poreFile) ==
    IF Len(poreFileChunks(poreFile)) > 1
    THEN poreFileChunks(poreFile)[Len(poreFileChunks(poreFile))]
    ELSE poreFile

\* the spot group of a Nanopore defline: the name of the fast5 file up to its channel
nanoporeSpotGroup(d, g) ==
    IF g.poreFile \in {"None", ""} THEN d.spotGroup
    ELSE IF rfind(chars(poreFileName(g.poreFile)), chars("_ch" \o g.channel \o "_")) = -1
    THEN d.spotGroup
    ELSE slice(chars(poreFileName(g.poreFile)), 0,
               rfind(chars(poreFileName(g.poreFile)), chars("_ch" \o g.channel \o "_")))

\* a defline that does not tell the read type takes it from the name of the file
poreReadKnown(d, g) ==
    \/ g.poreRead \notin {"None", ""}
    \/ /\ d.filename # ""
       /\ \E part \in {".2D.", ".template.", ".complement."} : filenameHolds(d.filename, part)

\* the read type of a Nanopore defline: from the name of the file when the defline
\* does not tell it, else from the suffix of the defline
poreReadFromFilename(filename) ==
    IF filenameHolds(filename, ".2D.") THEN "2D"
    ELSE IF filenameHolds(filename, ".template.") THEN "template"
    ELSE "complement"

poreReadFromSuffix(poreRead) ==
    IF poreRead = "_twodirections" \/ poreRead = "-2D" THEN "2D"
    ELSE IF poreRead = "_template" \/ poreRead = "-1D" THEN "template"
    ELSE "complement"

normalizedPoreRead(d, g) ==
    IF g.poreRead \in {"None", ""} THEN poreReadFromFilename(d.filename)
    ELSE poreReadFromSuffix(g.poreRead)

nanoporeMatched(d, foundRE, g) ==
    IF ~poreReadKnown(d, g)
    THEN [d EXCEPT !.name = g.poreStart \o g.channel \o g.poreMid \o g.readNo \o g.poreEnd,
                   !.spotGroup = nanoporeSpotGroup(d, g), !.poreRead = g.poreRead,
                   !.abort = "exit"]
    ELSE IF Retain(d)
    THEN [d EXCEPT !.name = g.poreStart \o g.channel \o g.poreMid \o g.readNo \o g.poreEnd,
                   !.spotGroup = nanoporeSpotGroup(d, g),
                   !.poreRead = normalizedPoreRead(d, g), !.deflineType = NANOPORE,
                   !.nanopore = foundRE, !.platform = "NANOPORE"]
    ELSE [d EXCEPT !.name = g.poreStart \o g.channel \o g.poreMid \o g.readNo \o g.poreEnd,
                   !.spotGroup = nanoporeSpotGroup(d, g),
                   !.poreRead = normalizedPoreRead(d, g)]

nanoporeWith(d, s, foundRE) ==
    IF ~Matches(foundRE, s) THEN [d EXCEPT !.isValid = FALSE]
    ELSE nanoporeMatched(d, foundRE, nanoporeGroups(foundRE, s))

\* the NANOPORE branch of parseDeflineString
parseNanopore(d, s) ==
    nanoporeWith(d, s, IF d.deflineType # None THEN d.nanopore ELSE nanoporeFound(d, s))

\* the prefix goes in front of the name unless the first name of the defline holds it
readIdName(g) ==
    IF /\ g.prefix # ""
       /\ find(chars(g.qiimeName), slice(chars(g.prefix), 0, Len(chars(g.prefix)) - 2)) = -1
    THEN g.prefix \o g.name
    ELSE g.name

readIdBarcodeMatched(d, g) ==
    IF Retain(d)
    THEN [d EXCEPT !.name = readIdName(g), !.spotGroup = chars(g.spotGroup),
                   !.deflineType = READID_BARCODE, !.platform = "UNDEFINED"]
    ELSE [d EXCEPT !.name = readIdName(g), !.spotGroup = chars(g.spotGroup)]

\* the READID_BARCODE branch of parseDeflineString
parseReadIdBarcode(d, s) ==
    IF s \notin readIdBarcode THEN [d EXCEPT !.isValid = FALSE]
    ELSE readIdBarcodeMatched(d, readIdBarcodeGroups(s))

\* the direction of a newbler read must start with f, F, r or R
sangerNewblerMatched(d, g) ==
    IF chars(g.dir)[1] \notin {"f", "F", "r", "R"}
    THEN [d EXCEPT !.name = g.name, !.abort = "exit"]
    ELSE IF Retain(d)
    THEN [d EXCEPT !.name = g.name, !.deflineType = SANGER_NEWBLER, !.platform = "CAPILLARY"]
    ELSE [d EXCEPT !.name = g.name]

\* the SANGER_NEWBLER branch of parseDeflineString
parseSangerNewbler(d, s) ==
    IF s \notin sangerNewbler THEN [d EXCEPT !.isValid = FALSE]
    ELSE sangerNewblerMatched(d, sangerNewblerGroups(s))

\* the cascade of parseDeflineString on a line that is not empty. No line of the
\* model matches the patterns of the HELICOS, ABSOLID, PACBIO and ION_TORRENT
\* branches, which are left out
cascade(d, s) ==
    IF d.deflineType \in IlluminaNewTypes
       \/ (d.deflineType = None
           /\ (Matches(d.illuminaNew, s) \/ s \in illuminaNewWithJunk
               \/ s \in illuminaNewNoPrefix))
    THEN parseIlluminaNew(d, s)
    ELSE IF d.deflineType = ILLUMINA_OLD
            \/ (d.deflineType = None
                /\ (s \in illuminaOldColon \/ s \in illuminaOldUnderscore
                    \/ s \in illuminaOldNoPrefix \/ s \in illuminaOldWithJunk2))
    THEN parseIlluminaOld(d, s)
    ELSE IF d.deflineType \in QiimeIlluminaNewTypes
            \/ (d.deflineType = None
                /\ (Matches(d.qiimeIlluminaNew, s) \/ s \in qiimeIlluminaNewPeriods))
    THEN parseQiimeIlluminaNew(d, s)
    ELSE IF d.deflineType \in {QIIME_ILLUMINA_OLD, QIIME_ILLUMINA_OLD_BC}
            \/ (d.deflineType = None /\ s \in qiimeIlluminaOld)
    THEN parseQiimeIlluminaOld(d, s)
    ELSE IF d.deflineType = LS454 \/ (d.deflineType = None /\ s \in ls454)
    THEN parseOnePattern(d, s, LS454, "ls454", ls454Name(s), "LS454")
    ELSE IF d.deflineType \in {QIIME_454, QIIME_454_BC}
            \/ (d.deflineType = None /\ s \in qiime454)
    THEN parseQiime454(d, s)
    ELSE IF d.deflineType = ILLUMINA_OLD_BC_RN
            \/ (d.deflineType = None
                /\ (s \in illuminaOldBcRnOnly \/ s \in illuminaOldBcOnly
                    \/ s \in illuminaOldRnOnly))
    THEN parseIlluminaOldBcRn(d, s)
    ELSE IF d.deflineType = QIIME_GENERIC \/ (d.deflineType = None /\ s \in qiimeBc)
    THEN parseQiimeGeneric(d, s)
    ELSE IF d.deflineType = NANOPORE
            \/ (d.deflineType = None /\ (Matches(d.nanopore, s) \/ s \in nanopore2))
    THEN parseNanopore(d, s)
    ELSE IF d.deflineType = READID_BARCODE \/ (d.deflineType = None /\ s \in readIdBarcode)
    THEN parseReadIdBarcode(d, s)
    ELSE IF d.deflineType = SANGER_NEWBLER \/ (d.deflineType = None /\ s \in sangerNewbler)
    THEN parseSangerNewbler(d, s)
    ELSE IF d.deflineType = UNDEFINED \/ (d.deflineType = None /\ s \in undefined)
    THEN parseOnePattern(d, s, UNDEFINED, "undefined", undefinedName(s), "UNDEFINED")
    ELSE [d EXCEPT !.isValid = FALSE]

\* a cascade that forgets the latched variant: every line is detected anew
classifyAnew(d, s) ==
    IF s = "" THEN d ELSE cascade([d EXCEPT !.deflineType = None], s)

\* parseDeflineString after reset(): the end of the file gives an empty line
classify(d, s) ==
    IF s = "" THEN d ELSE cascade(d, s)

\* the parse r of line s by the Defline d, and the history of the parses
parsedAs(d, s, r) ==
    [r EXCEPT !.parsed = Append(d.parsed,
                                [line |-> s, before |-> d.deflineType,
                                 re |-> d.illuminaNew,
                                 after |-> r.deflineType, isValid |-> r.isValid])]

parseDeflineString(d, s) ==
    parsedAs(d, s, classify([reset(d) EXCEPT !.deflineStringOrig = s], s))

\* ------------------------------------------------------------------------
\* class Seq and class Qual: the validators of sequence and quality lines
\* ------------------------------------------------------------------------
\* lines of the characters ACTGNWSBVDHKMRY
IsBases == {"ACGT"}

\* lines of the characters ACTGNWSBVDHKMRY and '.'
IsBasesDots == {"ACGT"}

\* color space: one of ACTG, then characters of "0123."
IsColor == {"T012"}

NewSeq == [isBaseSpace |-> FALSE, isColorSpace |-> FALSE, isValid |-> FALSE]

parseSeq(p, s) ==
    IF s = "" THEN [p EXCEPT !.isValid = FALSE]
    ELSE IF p.isBaseSpace THEN [p EXCEPT !.isValid = s \in IsBasesDots]
    ELSE IF p.isColorSpace THEN [p EXCEPT !.isValid = s \in IsColor]
    ELSE IF s \in IsBases THEN [p EXCEPT !.isValid = TRUE, !.isBaseSpace = TRUE]
    ELSE IF s \in IsColor THEN [p EXCEPT !.isValid = TRUE, !.isColorSpace = TRUE]
    ELSE IF s \in IsBasesDots THEN [p EXCEPT !.isValid = TRUE, !.isBaseSpace = TRUE]
    ELSE [p EXCEPT !.isValid = FALSE]

\* lines with a blank in them
HasSpace ==
    {"@H:1:2:3:4 1:N:0:", "@1:2:3:4 1:N:0:/1", "@H:1:2:3:4/1 1:N:0:T", "@H:1:2:3:4 2:N:0:T/2",
     "II I", "40 40"}

\* lines all of whose blank-separated parts are integers (none of them above 100)
AllInts == {"40 40"}

\* lines with a character above '~'
HasSpecialCharacters == {}

NewQual == [isNumQual |-> FALSE, isAscQual |-> FALSE, isValid |-> FALSE]

parseQual(p, s) ==
    IF s = "" THEN [p EXCEPT !.isValid = FALSE]
    ELSE IF p.isNumQual \/ (~p.isAscQual /\ s \in HasSpace)
    THEN IF s \in AllInts THEN [p EXCEPT !.isValid = TRUE, !.isNumQual = TRUE]
         ELSE [p EXCEPT !.isValid = FALSE]
    ELSE IF s \notin HasSpecialCharacters THEN [p EXCEPT !.isValid = TRUE, !.isAscQual = TRUE]
    ELSE [p EXCEPT !.isValid = FALSE]

\* len(s) and len(s.split())
StrLen(s) ==
    CASE s = "" -> 0
      [] s = "+" -> 1
      [] s \in {"@R1", "@R2"} -> 3
      [] s \in {"ACGT", "T012", "IIII", "II I"} -> 4
      [] s = "40 40" -> 5
      [] s = "@GG3IVWD03F5DLB" -> 15
      [] s \in {"@H:1:2:3:4 1:N:0:", "@1:2:3:4 1:N:0:/1"} -> 17
      [] s \in {"@H:1:2:3:4/1 1:N:0:T", "@H:1:2:3:4 2:N:0:T/2"} -> 20
      [] s = "@H:1:2:3:4_1:N:0:1/H:1:2:3:4_2:N:0:1" -> 36

SplitLen(s) == IF s = "" THEN 0 ELSE IF s \in HasSpace THEN 2 ELSE 1

\* ------------------------------------------------------------------------
\* class FastqReader: the four-line reader.  handle counts the lines read
\* from the file; a line read is <<s>> with s the line without its end of
\* line, and <<>> at the end of the file.  No line of FileLines starts with
\* '#', begins with a quote or has a lower-case letter, so processHeader
\* skips nothing, readQual strips no quotes and upper() changes nothing.
\* ------------------------------------------------------------------------
MaxResyncLines == 1000

\* FastqReader.__init__; "resyncs" is history: one entry for each call of
\* findValidDefline; "hitEof" is history: a readline() of this reader has
\* returned the empty string of the end of the file; "looping" is the position
\* in findValidDefline: in its loop or not; "readLengthQual" is history: the
\* length readQual returned in the last read()
NewReader ==
    [handle |-> 0, defline |-> NewDefline, deflineStringSeq |-> "", deflineStringQual |-> "",
     seqOrig |-> <<>>, seq |-> "", qualOrig |-> <<>>, qual |-> "", length |-> 0,
     lengthQual |-> 0, spotCount |-> 0, eof |-> FALSE, isNumQual |-> FALSE,
     checkSeqQual |-> TRUE, seqParser |-> NewSeq, qualParser |-> NewQual,
     savedDeflineString |-> "", fatal |-> FALSE, resyncs |-> <<>>, hitEof |-> FALSE,
     looping |-> FALSE, readLengthQual |-> 0]

readline(rd, file) == IF rd.handle < Len(file) THEN <<file[rd.handle + 1]>> ELSE <<>>

strip(raw) == IF raw = <<>> THEN "" ELSE raw[1]

\* the handle after readline()
advance(rd, file) ==
    IF rd.handle < Len(file) THEN [rd EXCEPT !.handle = rd.handle + 1]
    ELSE [rd EXCEPT !.hitEof = TRUE]

RECURSIVE processSeqDefline(_, _)

\* findValidDefline breaks out of its loop: rd is the reader after the break
resyncAccepted(rd, raw, callProcessSeqDefline, count) ==
    [rd EXCEPT !.looping = FALSE,
               !.resyncs = Append(rd.resyncs,
                                  [lines |-> count, accepted |-> raw, fatal |-> FALSE,
                                   callProcessSeqDefline |-> callProcessSeqDefline,
                                   deflineStringSeq |-> rd.deflineStringSeq])]

\* statusWriter.outputErrorAndExit("Unable to parse defline in 1000 lines or before eof ...")
resyncFatal(rd, callProcessSeqDefline, count) ==
    [rd EXCEPT !.looping = FALSE,
               !.fatal = TRUE,
               !.resyncs = Append(rd.resyncs,
                                  [lines |-> count, accepted |-> <<>>, fatal |-> TRUE,
                                   callProcessSeqDefline |-> callProcessSeqDefline,
                                   deflineStringSeq |-> rd.deflineStringSeq])]

\* the body of the loop of findValidDefline after the line raw was read and
\* parsed into rd.defline
resyncLine(rd, file, raw, callProcessSeqDefline, count) ==
    IF rd.defline.isValid
    THEN resyncAccepted(IF callProcessSeqDefline
                        THEN processSeqDefline([rd EXCEPT !.savedDeflineString = strip(raw)],
                                               file)
                        ELSE [rd EXCEPT !.savedDeflineString = strip(raw)],
                        raw, callProcessSeqDefline, count)
    ELSE IF count = MaxResyncLines \/ raw = <<>>
    THEN resyncFatal(rd, callProcessSeqDefline, count)
    ELSE rd

\* the count-th pass of the loop of findValidDefline
resyncPass(rd, file, callProcessSeqDefline, count) ==
    resyncLine([advance(rd, file) EXCEPT
                    !.deflineStringSeq = strip(readline(rd, file)),
                    !.defline = parseDeflineString(rd.defline, strip(readline(rd, file)))],
               file, readline(rd, file), callProcessSeqDefline, count)

\* the passes lo..hi of the loop of findValidDefline, one after the other, as
\* long as the loop was not left (the passes lo..mid, then the passes
\* mid+1..hi, which keeps the evaluation shallow)
RECURSIVE resyncPasses(_, _, _, _, _)
resyncPasses(rd, file, callProcessSeqDefline, lo, hi) ==
    IF ~rd.looping THEN rd
    ELSE IF lo = hi THEN resyncPass(rd, file, callProcessSeqDefline, lo)
    ELSE resyncPasses(resyncPasses(rd, file, callProcessSeqDefline, lo, (lo + hi) \div 2),
                      file, callProcessSeqDefline, (lo + hi) \div 2 + 1, hi)

\* the loop is left in pass MaxResyncLines at the latest, accepted or fatal
findValidDefline(rd, file, callProcessSeqDefline) ==
    IF rd.fatal THEN rd
    ELSE resyncPasses([rd EXCEPT !.looping = TRUE], file, callProcessSeqDefline,
                      1, MaxResyncLines)

\* processSeqDefline after self.defline.parseDeflineString(self.deflineStringSeq)
seqDeflineParsed(rd, file) ==
    IF rd.defline.isValid THEN rd ELSE findValidDefline(rd, file, FALSE)

\* processSeqDefline after self.deflineStringSeq was set
seqDeflineRead(rd, file) ==
    seqDeflineParsed([rd EXCEPT !.defline = parseDeflineString(rd.defline, rd.deflineStringSeq)],
                     file)

processSeqDefline(rd, file) ==
    IF rd.fatal THEN rd
    ELSE seqDeflineRead(IF rd.savedDeflineString # ""
                        THEN [rd EXCEPT !.deflineStringSeq = rd.savedDeflineString]
                        ELSE [advance(rd, file) EXCEPT
                                  !.deflineStringSeq = strip(readline(rd, file))],
                        file)

\* self.seqOrig = self.handle.readline(); self.seq = self.seqOrig.strip().upper()
readSeqLine(rd, file) ==
    [advance(rd, file) EXCEPT !.seqOrig = readline(rd, file), !.seq = strip(readline(rd, file))]

RECURSIVE readSeqLoop(_, _)

\* the loop of readSeq after findValidDefline(True)
seqResynced(rd, file) ==
    IF rd.fatal THEN rd ELSE readSeqLoop(readSeqLine(rd, file), file)

\* the loop of readSeq after self.seqParser.parseSeq(self.seqOrig.strip())
seqParsed(rd, file) ==
    IF rd.seq = "" \/ rd.seqParser.isValid THEN rd
    ELSE seqResynced(findValidDefline(rd, file, TRUE), file)

\* the loop of readSeq
readSeqLoop(rd, file) ==
    seqParsed([rd EXCEPT !.savedDeflineString = "",
                         !.seqParser = parseSeq(rd.seqParser, strip(rd.seqOrig))],
              file)

\* readSeq: return len(self.seq)
seqLength(rd) == IF rd.fatal THEN rd ELSE [rd EXCEPT !.length = StrLen(rd.seq)]

\* readSeq after its first line was read
seqLineRead(rd, file) ==
    seqLength(IF rd.savedDeflineString # "" \/ rd.checkSeqQual
              THEN readSeqLoop(rd, file)
              ELSE rd)

\* self.length = self.readSeq()
readSeq(rd, file) == IF rd.fatal THEN rd ELSE seqLineRead(readSeqLine(rd, file), file)

processQualDefline(rd, file) ==
    IF rd.fatal THEN rd
    ELSE [advance(rd, file) EXCEPT !.deflineStringQual = strip(readline(rd, file))]

\* self.qualOrig = handle.readline(); self.qual = self.qualOrig.strip()
readQualLine(rd, file) ==
    [advance(rd, file) EXCEPT !.qualOrig = readline(rd, file), !.qual = strip(readline(rd, file))]

RECURSIVE readQualLoop(_, _)

\* the loop of readQual after findValidDefline(True), readSeq() and processQualDefline()
qualResynced(rd, file) ==
    IF rd.fatal THEN rd ELSE readQualLoop(readQualLine(rd, file), file)

\* the loop of readQual after self.qualParser.parseQual(self.qualOrig.strip())
qualParsed(rd, file) ==
    IF rd.qual = "" \/ rd.qualParser.isValid THEN rd
    ELSE qualResynced(processQualDefline(readSeq(findValidDefline(rd, file, TRUE), file), file),
                      file)

\* the loop of readQual
readQualLoop(rd, file) ==
    qualParsed([rd EXCEPT !.qualParser = parseQual(rd.qualParser, strip(rd.qualOrig))], file)

\* readQual: return len(self.qual.split()) or len(self.qual)
qualLength(rd) ==
    IF rd.fatal THEN rd
    ELSE [rd EXCEPT !.lengthQual = IF rd.isNumQual THEN SplitLen(rd.qual) ELSE StrLen(rd.qual),
                    !.readLengthQual = IF rd.isNumQual THEN SplitLen(rd.qual)
                                       ELSE StrLen(rd.qual)]

\* readQual after its first line was read
qualLineRead(rd, file) == qualLength(IF rd.checkSeqQual THEN readQualLoop(rd, file) ELSE rd)

\* self.lengthQual = self.readQual(self.handle)
readQual(rd, file) == IF rd.fatal THEN rd ELSE qualLineRead(readQualLine(rd, file), file)

updateSpotCountOrEof(rd) ==
    IF rd.fatal THEN rd
    ELSE IF rd.qualOrig # <<>> \/ rd.defline.name # ""
    THEN [rd EXCEPT !.spotCount = rd.spotCount + 1]
    ELSE [rd EXCEPT !.eof = TRUE]

\* FastqReader.read
read(rd, file) ==
    updateSpotCountOrEof(
        readQual(processQualDefline(readSeq(processSeqDefline(rd, file), file), file), file))

\* FastqReader.restart
restart(rd) ==
    [rd EXCEPT !.handle = 0, !.eof = FALSE, !.spotCount = 0, !.deflineStringSeq = "",
               !.deflineStringQual = "", !.savedDeflineString = ""]

\* FastqReader.discardDeflineType
discardDeflineType(rd) == [rd EXCEPT !.defline.saveDeflineType = FALSE]
\* ------------------------------------------------------------------------
\* processFiles and processFastqSpots, as far as they drive the readers
\* ------------------------------------------------------------------------
\* FastqSpotWriter.__init__: the fields the readers' side of a load depends on
NewSpotWriter(mixed) ==
    [mixedDeflines |-> mixed, spotCount |-> 0, orphanReads |-> FALSE,
     maxErrorCount |-> DefaultMaxErrorCount]

\* setUnchangingSpotValues, its last lines: on the first spot of a load with
\* mixedDeflines, fastq1.discardDeflineType() and fastq2.discardDeflineType();
\* with fastq2 None the second call raises AttributeError
discardOnFirstSpot(sw, rdA, rdB, hasFastq2) ==
    IF sw.spotCount = 0 /\ sw.mixedDeflines
    THEN [fastq1 |-> discardDeflineType(rdA),
          fastq2 |-> IF hasFastq2 THEN discardDeflineType(rdB) ELSE rdB,
          raised |-> ~hasFastq2]
    ELSE [fastq1 |-> rdA, fastq2 |-> rdB, raised |-> FALSE]

\* processFiles up to the call of setUnchangingSpotValues: fastq1 is made, read
\* once for the platform message and restarted; fastq2 is made for a pair
openFastq1(file) == restart(read(NewReader, file))

\* writeSpot, without orphan reads: what becomes of sw.spotCount
spotCountAfterWriteSpot(sw, rdA, rdB, hasFastq2) ==
    IF rdA.seq = "" /\ (~hasFastq2 \/ rdB.seq = "") THEN sw.spotCount
    ELSE IF sw.orphanReads THEN sw.spotCount
    ELSE sw.spotCount + 1

\* processFastqSpots, the two reads of one pass of its loop: r1 and r2 are the
\* readers of file1 and file2, b1 and b2 what fastq1 and fastq2 are bound to
\* ("fq1", "fq2", "None")
readFastq1(f1, r1, b1) == IF b1 = "fq1" /\ ~r1.eof THEN read(r1, f1) ELSE r1

readFastq2(f2, r2, b1, b2, n1) ==
    IF (b1 = "fq2" \/ b2 = "fq2") /\ ~r2.eof /\ ~n1.fatal THEN read(r2, f2) ELSE r2

\* s[0:2]
FirstTwo(s) ==
    CASE s \in {"@R1", "@R2"} -> "@R"
      [] s \in {"@H:1:2:3:4 1:N:0:", "@H:1:2:3:4/1 1:N:0:T", "@H:1:2:3:4 2:N:0:T/2",
                "@H:1:2:3:4_1:N:0:1/H:1:2:3:4_2:N:0:1"} -> "@H"
      [] s = "@1:2:3:4 1:N:0:/1" -> "@1"
      [] s = "@GG3IVWD03F5DLB" -> "@G"
      [] s = "ACGT" -> "AC"
      [] s = "T012" -> "T0"
      [] s \in {"IIII", "II I"} -> "II"
      [] s = "40 40" -> "40"
      [] s = "+" -> "+"
      [] s = "" -> ""

\* a test that also takes a reader that has resynced for one in error
lengthsDifferOrResynced(rd) == ~rd.eof /\ (rd.length # rd.lengthQual \/ rd.resyncs # <<>>)

\* checkFastqLengths: fastq.length != fastq.lengthQual of a reader not at eof
lengthsDiffer(rd) == ~rd.eof /\ rd.length # rd.lengthQual

\* checkFastqLengths, "Looks for absence of quality": the quality line begins
\* like the defline and deflineCheck, given the variant of defline, parses it
qualIsDefline(rd) ==
    /\ FirstTwo(rd.qual) = FirstTwo(rd.defline.deflineStringOrig)
    /\ parseDeflineString([NewDefline EXCEPT !.deflineType = rd.defline.deflineType], rd.qual).isValid

\* checkFastqLengths with ASCII quality, the quality it leaves: length '?' for
\* an absent or empty quality, the first length characters of a longer one
\* (the sequences of the files are four characters long)
repairedQual(rd) ==
    IF qualIsDefline(rd) \/ rd.qual = "" THEN "????"
    ELSE IF rd.qual = "40 40" /\ rd.length = 4 THEN "40 4"
    ELSE rd.qual

\* checkFastqLengths as far as it changes the reader
repairLengths(rd) ==
    IF ~lengthsDiffer(rd) THEN rd
    ELSE [rd EXCEPT !.savedDeflineString = IF qualIsDefline(rd) THEN rd.qual ELSE @,
                    !.qual = repairedQual(rd),
                    !.lengthQual = rd.length]

\* errorCount after the calls of checkFastqLengths for fastq1 and fastq2
countErrors(errs, rdA, rdB, hasFastq2) ==
    errs + (IF lengthsDiffer(rdA) THEN 1 ELSE 0)
         + (IF hasFastq2 /\ lengthsDiffer(rdB) THEN 1 ELSE 0)

\* one pass of the loop of processFastqSpots with determineOffsetAndClip False,
\* after its reads: n1 and n2 are the readers of file1 and file2, errs is
\* errorCount
processFastqSpotsPass(n1, n2, b1, b2, sw, errs) ==
    LET rdA == IF b1 = "fq1" THEN n1 ELSE n2
        rdB == n2
        has == b2 # "None"
        orphans == sw.orphanReads
                   \/ (has /\ ~rdA.eof /\ ~rdB.eof /\ rdA.defline.name # rdB.defline.name)
        sw1 == [sw EXCEPT !.orphanReads = orphans]
        ends2 == has /\ rdB.eof
        ends1 == has /\ ~rdB.eof /\ rdA.eof
        c1  == IF ends2 \/ ends1 THEN (IF ends2 THEN b1 ELSE "fq2") ELSE b1
        c2  == IF ends2 \/ ends1 THEN "None" ELSE b2
        du  == discardOnFirstSpot(sw1, IF ends1 THEN rdB ELSE rdA, rdB, FALSE)
        m1  == IF (ends2 \/ ends1) /\ c1 = "fq1" THEN du.fastq1 ELSE n1
        m2  == IF (ends2 \/ ends1) /\ c1 = "fq2" THEN du.fastq1 ELSE n2
        rdC == IF c1 = "fq1" THEN m1 ELSE m2
        k1  == IF c1 = "fq1" \/ c2 = "fq1" THEN repairLengths(m1) ELSE m1
        k2  == IF c1 = "fq2" \/ c2 = "fq2" THEN repairLengths(m2) ELSE m2
        kC  == IF c1 = "fq1" THEN k1 ELSE k2
        errs1 == countErrors(errs, rdC, m2, c2 # "None")
    IN  IF n1.fatal \/ n2.fatal
        THEN [fq1 |-> n1, fq2 |-> n2, bound1 |-> b1, bound2 |-> b2, sw |-> sw,
              errorCount |-> errs, pc |-> "fatal"]
        ELSE IF rdA.eof /\ (~has \/ rdB.eof)
        THEN [fq1 |-> n1, fq2 |-> n2, bound1 |-> b1, bound2 |-> b2, sw |-> sw,
              errorCount |-> errs, pc |-> "done"]
        ELSE IF (ends2 \/ ends1) /\ du.raised
        THEN [fq1 |-> m1, fq2 |-> m2, bound1 |-> c1, bound2 |-> c2, sw |-> sw1,
              errorCount |-> errs, pc |-> "raised"]
        ELSE IF errs1 > sw.maxErrorCount
        THEN [fq1 |-> k1, fq2 |-> k2, bound1 |-> c1, bound2 |-> c2, sw |-> sw1,
              errorCount |-> errs1, pc |-> "fatal"]
        ELSE [fq1 |-> k1, fq2 |-> k2, bound1 |-> c1, bound2 |-> c2,
              sw |-> [sw1 EXCEPT !.spotCount =
                                     spotCountAfterWriteSpot(sw1, kC, k2, c2 # "None")],
              errorCount |-> errs1, pc |-> "emit"]

\* the writer's quality state before any option is processed
PHRED_33 == "(INSDC:quality:text:phred_33)QUALITY"

PHRED_64 == "(INSDC:quality:text:phred_64)QUALITY"

LOG_ODDS_64 == "(INSDC:quality:text:log_odds_64)QUALITY"

PHRED == "(INSDC:quality:phred)QUALITY"

LOG_ODDS == "(INSDC:quality:log_odds)QUALITY"

InvalidOffset == "Invalid offset determined or specified"

Combining33 == "Combining 33 offset with log odds is not yet supported"

MixedQuality == "Possible mixed numerical and non-numerical quality"

\* sw as FastqSpotWriter.__init__ leaves it, with what the scan of the file
\* types has found: the platform and whether the sequences are color space
NewQualWriter(platformString, isColorSpace) ==
    [offset |-> 33, minQual |-> 1000, maxQual |-> 0, isNumQual |-> FALSE,
     offsetProvided |-> FALSE, logOdds |-> FALSE, isColorSpace |-> isColorSpace,
     platformString |-> platformString,
     tbl |-> [SEQUENCE |-> PHRED_33, CONSENSUS |-> PHRED_33],
     opened |-> {}, fatal |-> ""]

ParseIdle == parser = NewDefline

QualCallIdle == qualCall = [pc |-> "idle"]

EightLineIdle ==
    /\ streamLines = <<>> /\ streamPos = 0 /\ streamReaders = <<>>
    /\ streamFastq = <<>> /\ streamType = "" /\ pcStream = "idle"

FileTypesIdle == typedFiles = <<>> /\ qualPairing = <<>> /\ pcFileTypes = "idle"

PoreFilesIdle == poreFiles = <<>> /\ fileAt = 0

FilePairsIdle ==
    /\ fileDeflines = <<>>
    /\ fileMultiLine = <<>>
    /\ pairFilesProvided = FALSE
    /\ pairing = <<>>
    /\ pcFilePairs = "idle"

QualIdle ==
    /\ argv = <<>>
    /\ prescanQuals = <<>>
    /\ qualWriter = NewQualWriter("", FALSE)
    /\ pcQual = "idle"

PairIdle ==
    /\ defline1 = [name |-> 0, readNum |-> 0, poreRead |-> "", tagType |-> "", deflineString |-> <<>>]
    /\ defline2 = defline1
    /\ paired12 = 0
    /\ paired21 = 0
    /\ pairedSame = 0
    /\ pcPair = "idle"

LenIdle ==
    /\ lenFastq = ReaderAfterRead(<<>>, <<>>, FALSE, TRUE)
    /\ lenIsNumQual = FALSE
    /\ lenResult = FALSE
    /\ lenBefore = lenFastq
    /\ pcLen = "idle"

LoadIdle ==
    /\ file1 = <<>>
    /\ file2 = <<>>
    /\ pairMode = "none"
    /\ handlePos = [h1 |-> 0, h2 |-> 0]
    /\ readers = [r1 |-> ReaderAtEof(FALSE), r2 |-> ReaderAtEof(FALSE),
                  r3 |-> ReaderAtEof(FALSE)]
    /\ arg1 = "r1"
    /\ arg2 = "None"
    /\ arg3 = "None"
    /\ writer = NewWriter(FALSE, FALSE, DefaultMaxErrorCount)
    /\ errorCount = 0
    /\ errorTotal = 0
    /\ pcLoad = "idle"

FilesIdle ==
    /\ lines1 = <<>>
    /\ lines2 = <<>>
    /\ isPaired = FALSE
    /\ fq1 = NewReader
    /\ fq2 = NewReader
    /\ bound1 = "fq1"
    /\ bound2 = "None"
    /\ spotWriter = NewSpotWriter(FALSE)
    /\ firstPass = <<>>
    /\ secondPass = <<>>
    /\ pcFiles = "idle"

\* ------------------------------------------------------------------------
\* SpecMixed: files of reads named 1..MaxName with read numbers 1 and 2, some
\* of them empty.  SpecSpot: three records with qualities of any length.
\* ------------------------------------------------------------------------
\* quality lines a reader can deliver: n values, or the defline of the next record
QualValues(n, isNumQual) ==
    IF isNumQual THEN Join([i \in 1..n |-> <<"7">>]) ELSE Repeat(<<"I">>, n)

NextDeflines == {<<"@", "r", "2">>, <<"@", "r", "2", " ", "x">>}

QualLines(isNumQual) ==
    {QualValues(n, isNumQual) : n \in 0..(MaxSeqLen + 1)} \cup NextDeflines

SeqLines == {Repeat(<<"A">>, n) : n \in 0..MaxSeqLen}

SeqOf(readNum, n) == Repeat(IF readNum = 1 THEN <<"A">> ELSE <<"C">>, n)

\* the records of file fileNo, built from the kinds ks
FileOf(ks, fileNo, isNumQual) ==
    [i \in 1..Len(ks) |->
        [id |-> 10 * fileNo + i, name |-> ks[i].name, readNum |-> ks[i].readNum,
         poreRead |-> "", channel |-> 0, readNo |-> 0,
         seq |-> SeqOf(ks[i].readNum, ks[i].seqLen),
         qual |-> IF ks[i].qualLen < 0 THEN <<"@", "r", "2">> \o Repeat(<<"x">>, MaxSeqLen)
                  ELSE QualValues(ks[i].qualLen, isNumQual)]]

SeqsUpTo(S, n) == UNION {[1..k -> S] : k \in 0..n}

MixedKinds ==
    {[name |-> nm, readNum |-> rn, seqLen |-> l, qualLen |-> l] :
        nm \in 1..MaxName, rn \in 1..2, l \in 0..1}

MixedInit ==
    /\ EightLineIdle
    /\ FileTypesIdle
    /\ QualCallIdle
    /\ PoreFilesIdle
    /\ ParseIdle
    /\ FilePairsIdle
    /\ QualIdle
    /\ FilesIdle
    /\ PairIdle
    /\ LenIdle
    /\ \E mode \in {"none", "same", "other"}, orphanReads \in BOOLEAN :
       \E k1 \in SeqsUpTo(MixedKinds, IF mode = "other" THEN MaxRecs ELSE MaxRecs + 1),
          k2 \in (IF mode = "other" THEN SeqsUpTo(MixedKinds, MaxRecs) ELSE {<<>>}) :
           LoadStart(FileOf(k1, 1, FALSE), FileOf(k2, 2, FALSE), mode, FALSE, orphanReads,
                     DefaultMaxErrorCount)

SpecMixed == MixedInit /\ [][LoadNext]_vars

\* a load processArguments accepted with ignoreNames: orphanReads is not set;
\* setFileTypes finds no eight-line file and setFilePairs pairs no files, so the
\* load is of one file or of a pair of files named with read1PairFiles and
\* read2PairFiles
IgnoreNamesInit ==
    /\ EightLineIdle
    /\ FileTypesIdle
    /\ QualCallIdle
    /\ PoreFilesIdle
    /\ ParseIdle
    /\ FilePairsIdle
    /\ QualIdle
    /\ FilesIdle
    /\ PairIdle
    /\ LenIdle
    /\ \E mode \in {"none", "other"} :
       \E k1 \in SeqsUpTo(MixedKinds, MaxRecs),
          k2 \in (IF mode = "other" THEN SeqsUpTo(MixedKinds, MaxRecs) ELSE {<<>>}) :
           LoadStartOf(FileOf(k1, 1, FALSE), FileOf(k2, 2, FALSE), mode,
                       [NewWriter(FALSE, FALSE, DefaultMaxErrorCount)
                           EXCEPT !.sw.ignoreNames = TRUE])

SpecIgnoreNames == IgnoreNamesInit /\ [][LoadNext]_vars

\* C27: in a load accepted with ignoreNames, orphanReads is false in every state:
\* no step of the load switches it on.
C27_NoOrphanReads == writer.sw.ignoreNames => ~writer.sw.orphanReads

\* a quality of one value less, as many, or one more than the bases, or none (-1)
SpotKinds(readNum, names) ==
    UNION {{[name |-> nm, readNum |-> readNum, seqLen |-> l, qualLen |-> q] :
                nm \in names, q \in {-1} \cup ((l - 1)..(l + 1))} : l \in 1..MaxSeqLen}

SpotInit ==
    /\ EightLineIdle
    /\ FileTypesIdle
    /\ QualCallIdle
    /\ PoreFilesIdle
    /\ ParseIdle
    /\ FilePairsIdle
    /\ QualIdle
    /\ FilesIdle
    /\ PairIdle
    /\ LenIdle
    /\ \E isNumQual \in BOOLEAN, orphanReads \in BOOLEAN, maxErrorCount \in 0..MaxErrors,
          rn \in 1..2, long \in 1..2 :
       \E a \in SpotKinds(rn, {1}), b \in SpotKinds(3 - rn, 1..MaxName),
          c \in SpotKinds(IF long = 1 THEN rn ELSE 3 - rn, 1..MaxName) :
           LoadStart(FileOf(IF long = 1 THEN <<a, c>> ELSE <<a>>, 1, isNumQual),
                     FileOf(IF long = 2 THEN <<b, c>> ELSE <<b>>, 2, isNumQual),
                     "other", isNumQual, orphanReads, maxErrorCount)

SpecSpot == SpotInit /\ [][LoadNext]_vars

\* ------------------------------------------------------------------------
\* SpecPore: one file of Nanopore template, complement and 2D records, read
\* through one handle by fastq1 and, as the scans of the file decide, by
\* fastq2 and fastq3
\* ------------------------------------------------------------------------
\* Defline.parseDeflineString: the name of a Nanopore read holds its channel
\* and its read number
PoreChannel(name) == (name + 1) \div 2

PoreReadNo(name) == 2 - (name % 2)

PoreKinds ==
    {[name |-> nm, poreRead |-> pr] :
        nm \in 1..MaxName, pr \in {"template", "complement", "2D"}}

PoreFileOf(ks) ==
    [i \in 1..Len(ks) |->
        [id |-> 10 + i, name |-> ks[i].name, readNum |-> 0, poreRead |-> ks[i].poreRead,
         channel |-> PoreChannel(ks[i].name), readNo |-> PoreReadNo(ks[i].name),
         seq |-> <<"A">>, qual |-> <<"I">>]]

\* the Defline of a record, as isPairedDeflines reads it
DeflineOf(rec) ==
    [name |-> rec.name, readNum |-> rec.readNum, poreRead |-> rec.poreRead,
     tagType |-> "", deflineString |-> <<>>]

\* the read types found in the file
Found(file, poreRead) == \E i \in 1..Len(file) : file[i].poreRead = poreRead

\* setFileTypes and isEightLineFastq: the first two records are a pair
isEightLineFastq(file) ==
    IF Len(file) >= 2
    THEN isPairedDeflines(DeflineOf(file[1]), DeflineOf(file[2]), FALSE) # 0
    ELSE FALSE

\* setFilePairs: "eight line fastq with orphan reads", a name is met again
NameRepeats(file) == \E i, j \in 1..Len(file) : i < j /\ file[i].name = file[j].name

\* setFilePairs: the record that met its name again, or the first record
\* of that name, is a 2D read
Repeats2D(file) ==
    \E i, j \in 1..Len(file) :
        /\ i < j
        /\ file[i].name = file[j].name
        /\ \A k \in 1..(i - 1) : file[k].name # file[i].name
        /\ (file[i].poreRead = "2D" \/ file[j].poreRead = "2D")

\* fileReadPairs[filename] = filename after setFileTypes, setFilePairs and
\* checkForColorSpaceOrNanoporeFiles
InFileReadPairs(file) ==
    IF isEightLineFastq(file) \/ NameRepeats(file) THEN TRUE
    ELSE Found(file, "template") /\ Found(file, "complement")

\* filePore2D[filename] = filename after the same three functions
InFilePore2D(file) ==
    IF isEightLineFastq(file) THEN Found(file, "2D")
    ELSE IF NameRepeats(file) THEN Repeats2D(file)
    ELSE Found(file, "template") /\ Found(file, "2D")

\* checkForColorSpaceOrNanoporeFiles: sw.nanopore2Donly
Is2Donly(file) ==
    IF isEightLineFastq(file) \/ NameRepeats(file) THEN FALSE
    ELSE ~(Found(file, "template") \/ Found(file, "complement"))

\* openGeneralWriter and processFiles up to the first call of
\* processFastqSpots, for one file of Nanopore reads
PoreStart(f1) ==
    /\ file1 = f1
    /\ file2 = <<>>
    /\ pairMode = IF InFileReadPairs(f1) THEN "same" ELSE "none"
    /\ handlePos = [h1 |-> 0, h2 |-> 0]
    /\ readers = [r1 |-> ReaderAtEof(FALSE), r2 |-> ReaderAtEof(FALSE),
                  r3 |-> ReaderAtEof(FALSE)]
    /\ arg1 = "r1"
    /\ arg2 = IF InFileReadPairs(f1) THEN "r2" ELSE "None"
    /\ arg3 = IF InFilePore2D(f1) THEN "r3" ELSE "None"
    /\ writer = setUnchangingSpotValues(
                    [NewWriter(FALSE, ~Is2Donly(f1), DefaultMaxErrorCount)
                        EXCEPT !.sw.platformString = "NANOPORE",
                               !.sw.nanopore2Donly = Is2Donly(f1)],
                    InFileReadPairs(f1))
    /\ errorCount = 0
    /\ errorTotal = 0
    /\ pcLoad = "main"

\* files of one to MaxPoreRecs records; the first record has name 1
PoreInit ==
    /\ EightLineIdle
    /\ FileTypesIdle
    /\ QualCallIdle
    /\ PoreFilesIdle
    /\ ParseIdle
    /\ FilePairsIdle
    /\ QualIdle
    /\ FilesIdle
    /\ PairIdle
    /\ LenIdle
    /\ \E ks \in SeqsUpTo(PoreKinds, MaxPoreRecs) :
           /\ Len(ks) > 0
           /\ ks[1].name = 1
           /\ PoreStart(PoreFileOf(ks))

SpecPore == PoreInit /\ [][LoadNext]_vars

\* ------------------------------------------------------------------------
\* SpecPoreFiles: a load of two Nanopore files that share no read name, so
\* that setFilePairs pairs neither with the other. The writer is one for
\* the load: checkForColorSpaceOrNanoporeFiles sets its nanopore2Donly
\* when a file holds no template and no complement read, processFiles then
\* takes the files one after the other.
\* ------------------------------------------------------------------------
MaxPoreFileRecs == 2

\* the records of the n-th file, all of the name n
PoreFileNo(ks, n) ==
    [i \in 1..Len(ks) |->
        [id |-> 10 * n + i, name |-> n, readNum |-> 0, poreRead |-> ks[i],
         channel |-> PoreChannel(n), readNo |-> PoreReadNo(n),
         seq |-> <<"A">>, qual |-> <<"I">>]]

PoreReadKinds == {"template", "complement", "2D"}

\* sw.orphanReads after setFileTypes and setFilePairs took the file: an
\* eight-line file with a 2D read, or a file in which a name is met again
SetsOrphanReads(file) ==
    IF isEightLineFastq(file) THEN Found(file, "2D") ELSE NameRepeats(file)

\* setFileTypes, setFilePairs and checkForColorSpaceOrNanoporeFiles over the
\* files, then openGeneralWriter
PoreWriter(files) ==
    LET latched == \E k \in 1..Len(files) : Is2Donly(files[k])
        orphanReads == \/ \E k \in 1..Len(files) : SetsOrphanReads(files[k])
                       \/ ~latched
    IN  [NewWriter(FALSE, orphanReads, DefaultMaxErrorCount)
            EXCEPT !.sw.platformString = "NANOPORE", !.sw.nanopore2Donly = latched]

PoreFilesInit ==
    /\ EightLineIdle
    /\ FileTypesIdle
    /\ QualCallIdle
    /\ ParseIdle
    /\ FilePairsIdle
    /\ QualIdle
    /\ FilesIdle
    /\ PairIdle
    /\ LenIdle
    /\ \E ks1 \in SeqsUpTo(PoreReadKinds, MaxPoreFileRecs),
          ks2 \in SeqsUpTo(PoreReadKinds, MaxPoreFileRecs) :
           /\ ks1 # <<>>
           /\ ks2 # <<>>
           /\ poreFiles = <<PoreFileNo(ks1, 1), PoreFileNo(ks2, 2)>>
           /\ fileAt = 1
           /\ file1 = poreFiles[1]
           /\ file2 = <<>>
           /\ pairMode = IF InFileReadPairs(file1) THEN "same" ELSE "none"
           /\ handlePos = [h1 |-> 0, h2 |-> 0]
           /\ readers = [r1 |-> ReaderAtEof(FALSE), r2 |-> ReaderAtEof(FALSE),
                         r3 |-> ReaderAtEof(FALSE)]
           /\ arg1 = "r1"
           /\ arg2 = IF InFileReadPairs(file1) THEN "r2" ELSE "None"
           /\ arg3 = IF InFilePore2D(file1) THEN "r3" ELSE "None"
           /\ writer = setUnchangingSpotValues(PoreWriter(poreFiles), InFileReadPairs(file1))
           /\ errorCount = 0
           /\ errorTotal = 0
           /\ pcLoad = "main"

\* processFiles: the next file of the load, with new readers and the writer
\* as the files before it left it
NextPoreFile ==
    /\ pcLoad = "done"
    /\ fileAt < Len(poreFiles)
    /\ fileAt' = fileAt + 1
    /\ file1' = poreFiles[fileAt + 1]
    /\ file2' = <<>>
    /\ pairMode' = IF InFileReadPairs(file1') THEN "same" ELSE "none"
    /\ handlePos' = [h1 |-> 0, h2 |-> 0]
    /\ readers' = [r1 |-> ReaderAtEof(FALSE), r2 |-> ReaderAtEof(FALSE),
                   r3 |-> ReaderAtEof(FALSE)]
    /\ arg1' = "r1"
    /\ arg2' = IF InFileReadPairs(file1') THEN "r2" ELSE "None"
    /\ arg3' = IF InFilePore2D(file1') THEN "r3" ELSE "None"
    /\ writer' = setUnchangingSpotValues(writer, InFileReadPairs(file1'))
    /\ errorCount' = 0
    /\ pcLoad' = "main"
    /\ UNCHANGED <<poreFiles, errorTotal>>
    /\ UNCHANGED <<eightLineVars, fileTypeVars, qualCallVars, parseVars, filePairVars, qualVars, pairVars, lenVars, filesVars>>

PoreFilesNext == LoadNext \/ NextPoreFile

SpecPoreFiles == PoreFilesInit /\ [][PoreFilesNext]_vars

\* the read of the load that a row holds
PoreReadOf(id) ==
    CHOOSE rec \in UNION {{poreFiles[k][i] : i \in 1..Len(poreFiles[k])} :
                              k \in 1..Len(poreFiles)} : rec.id = id

\* C21: in a load where nanopore2Donly is latched no row is written to
\* SEQUENCE, and every row written to CONSENSUS carries a read whose
\* poreRead is 2D: no template or complement read is written as one.
C21_Only2DReads ==
    writer.sw.nanopore2Donly =>
        \A k \in 1..Len(writer.gw) :
            /\ writer.gw[k].tbl = "CONSENSUS"
            /\ \A i \in 1..Len(writer.gw[k].ids) :
                   PoreReadOf(writer.gw[k].ids[i]).poreRead = "2D"

\* ------------------------------------------------------------------------
\* SpecFiles: a load of one file or of a pair of files, with and without
\* mixedDeflines, up to the end of the first call of processFastqSpots.
\* Every record has the sequence ACGT and the quality IIII, so that
\* checkFastqLengths finds equal lengths (pcFiles "repair" is not reached).
\* ------------------------------------------------------------------------
RECURSIVE Flatten(_)
Flatten(recs) == IF recs = <<>> THEN <<>> ELSE Head(recs) \o Flatten(Tail(recs))

\* the files of up to n records whose deflines are lines of ds
FilesOf(ds, n) == {Flatten([i \in 1..Len(ks) |-> <<ks[i], "ACGT", "+", "IIII">>]) :
                      ks \in SeqsUpTo(ds, n)}

File1Deflines == DeflineLines \cup {BlankLine}

File2Deflines == {"@R1", "@H:1:2:3:4 2:N:0:T/2", "@GG3IVWD03F5DLB"}

FilesInit ==
    /\ EightLineIdle
    /\ FileTypesIdle
    /\ QualCallIdle
    /\ PoreFilesIdle
    /\ ParseIdle
    /\ FilePairsIdle
    /\ QualIdle
    /\ PairIdle
    /\ LenIdle
    /\ LoadIdle
    /\ lines1 \in FilesOf(File1Deflines, MaxFileRecs)
    /\ isPaired \in BOOLEAN
    /\ lines2 \in (IF isPaired THEN FilesOf(File2Deflines, MaxFileRecs) ELSE {<<>>})
    /\ fq1 = NewReader
    /\ fq2 = NewReader
    /\ bound1 = "fq1"
    /\ bound2 = IF isPaired THEN "fq2" ELSE "None"
    /\ spotWriter \in {NewSpotWriter(mixed) : mixed \in BOOLEAN}
    /\ firstPass = <<>>
    /\ secondPass = <<>>
    /\ pcFiles = "start"

OpenFiles ==
    /\ pcFiles = "start"
    /\ \E rd \in {openFastq1(lines1)} :
           /\ fq1' = rd
           /\ pcFiles' = IF rd.fatal THEN "fatal" ELSE "setup"
    /\ UNCHANGED <<lines1, lines2, isPaired, fq2, bound1, bound2, spotWriter, firstPass,
                   secondPass>>
    /\ UNCHANGED <<eightLineVars, fileTypeVars, qualCallVars, poreFilesVars, parseVars, filePairVars, qualVars, pairVars, lenVars, loadVars>>

SetUnchangingSpotValues ==
    /\ pcFiles = "setup"
    /\ \E du \in {discardOnFirstSpot(spotWriter, fq1, fq2, isPaired)} :
           /\ fq1' = du.fastq1
           /\ fq2' = du.fastq2
           /\ pcFiles' = IF du.raised THEN "raised" ELSE "emit"
    /\ UNCHANGED <<lines1, lines2, isPaired, bound1, bound2, spotWriter, firstPass,
                   secondPass>>
    /\ UNCHANGED <<eightLineVars, fileTypeVars, qualCallVars, poreFilesVars, parseVars, filePairVars, qualVars, pairVars, lenVars, loadVars>>

ReadSpots ==
    /\ pcFiles = "emit"
    /\ \E n1 \in {readFastq1(lines1, fq1, bound1)} :
       \E n2 \in {readFastq2(lines2, fq2, bound1, bound2, n1)} :
       \E r \in {processFastqSpotsPass(n1, n2, bound1, bound2, spotWriter, errorCount)} :
           /\ fq1' = r.fq1
           /\ fq2' = r.fq2
           /\ bound1' = r.bound1
           /\ bound2' = r.bound2
           /\ spotWriter' = r.sw
           /\ errorCount' = r.errorCount
           /\ pcFiles' = r.pc
    /\ UNCHANGED <<lines1, lines2, isPaired, firstPass, secondPass>>
    /\ UNCHANGED <<eightLineVars, fileTypeVars, qualCallVars, poreFilesVars, parseVars, filePairVars, qualVars, pairVars, lenVars>>
    /\ UNCHANGED <<file1, file2, pairMode, handlePos, readers, arg1, arg2, arg3, writer,
                   errorTotal, pcLoad>>

FilesNext == OpenFiles \/ SetUnchangingSpotValues \/ ReadSpots

SpecFiles == FilesInit /\ [][FilesNext]_vars

\* ------------------------------------------------------------------------
\* SpecRestart: one reader reads some records of a file, is restarted, and
\* reads again.  firstPass and secondPass are history: what each call of read
\* in the two passes delivered.
\* ------------------------------------------------------------------------
Delivered(rd) == [defline |-> rd.deflineStringSeq, eof |-> rd.eof, fatal |-> rd.fatal]

ReadRecord ==
    /\ pcFiles \in {"pass1", "pass2"}
    /\ ~fq1.eof
    /\ ~fq1.fatal
    /\ pcFiles = "pass2" => Len(secondPass) < Len(firstPass)
    /\ \E rd \in {read(fq1, lines1)} :
           /\ fq1' = rd
           /\ IF pcFiles = "pass1"
              THEN firstPass' = Append(firstPass, Delivered(rd)) /\ UNCHANGED secondPass
              ELSE secondPass' = Append(secondPass, Delivered(rd)) /\ UNCHANGED firstPass
    /\ UNCHANGED <<lines1, lines2, isPaired, fq2, bound1, bound2, spotWriter, pcFiles>>
    /\ UNCHANGED <<eightLineVars, fileTypeVars, qualCallVars, poreFilesVars, parseVars, filePairVars, qualVars, pairVars, lenVars, loadVars>>

Restart ==
    /\ pcFiles = "pass1"
    /\ ~fq1.fatal
    /\ fq1' = restart(fq1)
    /\ pcFiles' = "pass2"
    /\ UNCHANGED <<lines1, lines2, isPaired, fq2, bound1, bound2, spotWriter, firstPass,
                   secondPass>>
    /\ UNCHANGED <<eightLineVars, fileTypeVars, qualCallVars, poreFilesVars, parseVars, filePairVars, qualVars, pairVars, lenVars, loadVars>>

RestartNext == ReadRecord \/ Restart

ReaderStart(file) ==
    /\ lines1 = file
    /\ lines2 = <<>>
    /\ isPaired = FALSE
    /\ fq1 = NewReader
    /\ fq2 = NewReader
    /\ bound1 = "fq1"
    /\ bound2 = "None"
    /\ spotWriter = NewSpotWriter(FALSE)
    /\ firstPass = <<>>
    /\ secondPass = <<>>
    /\ pcFiles = "pass1"

\* records with a base-space or a color-space sequence and an ASCII quality,
\* an ASCII quality with a blank in it, or a numerical quality
RestartRecords ==
    {<<d, s, "+", q>> : d \in {"@R1", "@R2"}, s \in {"ACGT", "T012"},
                        q \in {"IIII", "II I", "40 40"}}

RestartInit ==
    /\ EightLineIdle
    /\ FileTypesIdle
    /\ QualCallIdle
    /\ PoreFilesIdle
    /\ ParseIdle
    /\ FilePairsIdle
    /\ QualIdle
    /\ PairIdle
    /\ LenIdle
    /\ LoadIdle
    /\ \E recs \in SeqsUpTo(RestartRecords, MaxRestartRecs) : ReaderStart(Flatten(recs))

SpecRestart == RestartInit /\ [][RestartNext]_vars

\* ------------------------------------------------------------------------
\* SpecLen: checkFastqLengths applied to one record as a reader delivers it
\* ------------------------------------------------------------------------
LenInit ==
    /\ EightLineIdle
    /\ FileTypesIdle
    /\ QualCallIdle
    /\ PoreFilesIdle
    /\ ParseIdle
    /\ FilePairsIdle
    /\ QualIdle
    /\ FilesIdle
    /\ PairIdle
    /\ LoadIdle
    /\ lenIsNumQual \in BOOLEAN
    /\ \E seq \in SeqLines, qual \in QualLines(lenIsNumQual), eof \in BOOLEAN :
           lenFastq = ReaderAfterRead(seq, qual, lenIsNumQual, eof)
    /\ lenBefore = lenFastq
    /\ lenResult = FALSE
    /\ pcLen = "start"

CheckLengths ==
    /\ pcLen = "start"
    /\ LET r == checkFastqLengths(lenFastq, lenIsNumQual)
       IN  /\ lenFastq' = r.fastq
           /\ lenResult' = r.ret
    /\ pcLen' = "done"
    /\ UNCHANGED <<lenIsNumQual, lenBefore>>
    /\ UNCHANGED <<eightLineVars, fileTypeVars, qualCallVars, poreFilesVars, parseVars, filePairVars, qualVars, pairVars, loadVars, filesVars>>

LenNext == CheckLengths

SpecLen == LenInit /\ [][LenNext]_vars

\* ------------------------------------------------------------------------
\* SpecPair: the pairing predicate applied to two deflines in both orders
\* ------------------------------------------------------------------------
PairInit ==
    /\ EightLineIdle
    /\ FileTypesIdle
    /\ QualCallIdle
    /\ PoreFilesIdle
    /\ ParseIdle
    /\ FilePairsIdle
    /\ QualIdle
    /\ FilesIdle
    /\ LenIdle
    /\ LoadIdle
    /\ defline1 \in PairDeflines
    /\ defline2 \in PairDeflines
    /\ paired12 = 0
    /\ paired21 = 0
    /\ pairedSame = 0
    /\ pcPair = "start"

ComparePair ==
    /\ pcPair = "start"
    /\ paired12' = isPairedDeflines(defline1, defline2, FALSE)
    /\ paired21' = isPairedDeflines(defline2, defline1, FALSE)
    /\ pairedSame' = isPairedDeflines(defline1, defline2, TRUE)
    /\ pcPair' = "done"
    /\ UNCHANGED <<defline1, defline2>>
    /\ UNCHANGED <<eightLineVars, fileTypeVars, qualCallVars, poreFilesVars, parseVars, filePairVars, qualVars, lenVars, loadVars, filesVars>>

PairNext == ComparePair

SpecPair == PairInit /\ [][PairNext]_vars

\* the records of the input files of the load
IsSeqRow(row) == row.tbl = "SEQUENCE"

IsConsRow(row) == row.tbl = "CONSENSUS"

SeqRows == SelectSeq(writer.gw, IsSeqRow)

ConsRows == SelectSeq(writer.gw, IsConsRow)

\* C4: in a Nanopore load that is not 2D-only, after every turn of the loop
\* of each pass CONSENSUS has as many rows as SEQUENCE, the i-th row of
\* CONSENSUS has the channel and the read number of the i-th row of SEQUENCE,
\* and a fake row has length zero
C4_RowAlignment ==
    (writer.sw.platformString = "NANOPORE" /\ ~writer.sw.nanopore2Donly) =>
        /\ Len(ConsRows) = Len(SeqRows)
        /\ \A i \in 1..Len(SeqRows) :
              i <= Len(ConsRows) =>
                /\ ConsRows[i].CHANNEL = SeqRows[i].CHANNEL
                /\ ConsRows[i].READ_NO = SeqRows[i].READ_NO
                /\ (ConsRows[i].by = "writeFake2Dread" => ConsRows[i].READ_LENGTH = <<0>>)
                /\ (SeqRows[i].by = "writeFakeTemplateRead" => SeqRows[i].READ_LENGTH = <<0>>)

InputRecords ==
    {file1[i] : i \in 1..Len(file1)} \cup {file2[i] : i \in 1..Len(file2)}

\* the places (row, read) where the rows written hold the input record id
PlacesWritten(id) ==
    {p \in (1..Len(writer.gw)) \X (1..2) :
        p[2] <= Len(writer.gw[p[1]].ids) /\ writer.gw[p[1]].ids[p[2]] = id}

HasMate(rec) == \E other \in InputRecords : other.id # rec.id /\ other.name = rec.name

\* C2: after a load with orphan reads of records that all have bases, every
\* input record is in exactly one written spot: a two-read spot when a record
\* of the same name occurs, else a fragment written with dumpOrphans set.
C2_EveryReadOnce ==
    (pcLoad = "done" /\ writer.sw.orphanReads /\ \A rec \in InputRecords : rec.seq # <<>>) =>
        \A rec \in InputRecords :
            /\ Cardinality(PlacesWritten(rec.id)) = 1
            /\ \A p \in PlacesWritten(rec.id) :
                   IF HasMate(rec) THEN Len(writer.gw[p[1]].ids) = 2
                   ELSE writer.gw[p[1]].by = "writeMixedOrphan"

\* the names that are keys of a map of orphan reads
Keys(h) == {n \in DOMAIN h : h[n] # NoEntry}

\* the names of the rows that a step adds to SEQUENCE through the function by
NamesWrittenBy(by) ==
    {writer'.gw[k].NAME : k \in {i \in (Len(writer.gw) + 1)..Len(writer'.gw) :
                                      writer'.gw[i].by = by}}

\* C29: in non-Nanopore orphan-tolerant mode no name is a key of both
\* pairedRead1 and pairedRead2 after a processed record; a read is inserted
\* into a map only when its name is in neither map, and a lookup hit removes
\* the matched entry in the step in which the paired spot is written.
C29_MapsDisjoint ==
    [][(writer.sw.platformString # "NANOPORE" /\ writer'.sw.orphanReads) =>
           /\ Keys(writer'.sw.pairedRead1) \cap Keys(writer'.sw.pairedRead2) = {}
           /\ \A n \in (Keys(writer'.sw.pairedRead1) \ Keys(writer.sw.pairedRead1))
                       \cup (Keys(writer'.sw.pairedRead2) \ Keys(writer.sw.pairedRead2)) :
                  n \notin Keys(writer.sw.pairedRead1) \cup Keys(writer.sw.pairedRead2)
           /\ \A n \in NamesWrittenBy("writeMixedRead1") :
                  n \in Keys(writer.sw.pairedRead2) \ Keys(writer'.sw.pairedRead2)
           /\ \A n \in NamesWrittenBy("writeMixedRead2") :
                  n \in Keys(writer.sw.pairedRead1) \ Keys(writer'.sw.pairedRead1)]_vars

\* a read met its mate in a map while another read still waits in a map
C29_Witness ==
    /\ writer.sw.platformString # "NANOPORE"
    /\ writer.sw.orphanReads
    /\ \E k \in 1..Len(writer.gw) : writer.gw[k].by \in {"writeMixedRead1", "writeMixedRead2"}
    /\ Keys(writer.sw.pairedRead1) \cup Keys(writer.sw.pairedRead2) # {}

RecordOf(id) == CHOOSE rec \in InputRecords : rec.id = id

TwoReadWriters == {"processPairFastqSpot", "writeMixedPair", "writeMixedRead1", "writeMixedRead2"}

\* C3: every spot written with two reads has READ_START = [0, READ_LENGTH[0]],
\* READ = seq1 followed by seq2, READ_LENGTH = [|seq1|, |seq2|] and as many
\* quality values as READ_LENGTH[0] + READ_LENGTH[1].
C3_TwoReadSpot ==
    \A k \in 1..Len(writer.gw) :
        writer.gw[k].by \in TwoReadWriters =>
            LET spot == writer.gw[k]
                seq1 == RecordOf(spot.ids[1]).seq
                seq2 == RecordOf(spot.ids[2]).seq
            IN  /\ spot.READ = seq1 \o seq2
                /\ spot.READ_LENGTH = <<Len(seq1), Len(seq2)>>
                /\ spot.READ_START = <<0, spot.READ_LENGTH[1]>>
                /\ Len(spot.QUALITY) = spot.READ_LENGTH[1] + spot.READ_LENGTH[2]

\* C9 (as stated): as soon as the errors counted since the load began, over
\* all passes, exceed maxErrorCount the load has ended with a fatal error.
C9_BudgetWholeRun ==
    errorTotal > writer.sw.maxErrorCount => pcLoad = "fatal"

\* C9 (amended): the errors are counted per call of processFastqSpots (one pass
\* over one file or file pair); the turn of the loop in which that count
\* exceeds maxErrorCount ends the load with 'Too many errors occurred' and
\* writes no spot, that error is raised for no other reason, and nothing is
\* written once the load has ended.
C9_BudgetPerCall ==
    [][/\ (errorCount' > writer'.sw.maxErrorCount) =>
              /\ pcLoad' = "fatal"
              /\ writer'.fatal = "Too many errors occurred"
              /\ writer'.gw = writer.gw
       /\ (writer'.fatal = "Too many errors occurred") =>
              errorCount' > writer'.sw.maxErrorCount
       /\ pcLoad = "fatal" => writer'.gw = writer.gw]_vars

\* the budget is exceeded after a spot was written
C9_Witness ==
    /\ pcLoad = "fatal"
    /\ writer.fatal = "Too many errors occurred"
    /\ errorCount > writer.sw.maxErrorCount
    /\ Len(writer.gw) > 0

\* C8: whenever checkFastqLengths finds length # lengthQual it returns true and
\* leaves exactly |seq| quality values: all defaults ('?' or 30) when the quality
\* line was the next defline, which is pushed back; the original values padded
\* with defaults when too short; the first |seq| values when too long.
C8_RepairExact ==
    (pcLen = "done" /\ ~lenBefore.eof /\ lenBefore.length # lenBefore.lengthQual) =>
        LET n == lenBefore.length
            old == QualityValues(lenBefore.qual, lenIsNumQual)
            new == QualityValues(lenFastq.qual, lenIsNumQual)
        IN  /\ lenResult = TRUE
            /\ Len(new) = n
            /\ IF lenBefore.qual \in NextDeflines
               THEN /\ new = DefaultValues(n, lenIsNumQual)
                    /\ lenFastq.savedDeflineString = lenBefore.qual
               ELSE IF Len(old) < n
               THEN new = old \o DefaultValues(n - Len(old), lenIsNumQual)
               ELSE new = SubSeq(old, 1, n)

\* The two deflines tie on the attribute that decides the order
PairTie ==
    /\ defline1.name # 0
    /\ defline1.name = defline2.name
    /\ IF defline1.readNum # 0 /\ defline2.readNum # 0
       THEN defline1.readNum = defline2.readNum
       ELSE IF defline1.poreRead # "" \/ defline2.poreRead # ""
       THEN defline1.poreRead = "template" /\ defline2.poreRead = "template"
       ELSE IF defline1.tagType # "" /\ defline2.tagType # ""
       THEN (defline1.tagType = "F3") = (defline2.tagType = "F3")
       ELSE defline1.deflineString = defline2.deflineString

\* C1 (as stated): for every two deflines a and b,
\* isPairedDeflines(a, b, False) = 1 exactly when isPairedDeflines(b, a, False) = 2.
C1_SymmetryAll ==
    pcPair = "done" => ((paired12 = 1) <=> (paired21 = 2))

\* C1 (amended): for two deflines that do not tie on the deciding attribute
\* (equal readNums, both template, both or neither F3, equal raw strings),
\* isPairedDeflines(a, b, False) = 1 exactly when isPairedDeflines(b, a, False) = 2;
\* on a tie both orders give the same answer.
C1_SymmetryNoTie ==
    pcPair = "done" =>
        /\ ~PairTie => ((paired12 = 1) <=> (paired21 = 2))
        /\ PairTie => (paired12 = paired21 /\ paired12 \in {1, 2})

\* a pair decided by a template read on the second defline
C1_Witness ==
    /\ pcPair = "done"
    /\ ~PairTie
    /\ defline2.poreRead = "template"
    /\ paired12 = 2
    /\ paired21 = 1

\* ------------------------------------------------------------------------
\* Properties of the latch of the defline variant (SpecFiles)
\* ------------------------------------------------------------------------
\* the pattern a latched Defline matches its lines with
LatchedPattern(e) ==
    IF e.before \in IlluminaNewTypes THEN e.re
    ELSE IF e.before = LS454 THEN "ls454"
    ELSE "undefined"

\* the calls of parseDeflineString of d that found the variant latched kept
\* the tag and, for the lines of Lines, reported the line valid exactly when
\* the latched pattern matches it
LatchKept(d, Lines) ==
    \A i \in 1..Len(d.parsed) :
        d.parsed[i].before # None =>
            /\ d.parsed[i].after = d.parsed[i].before
            /\ d.parsed[i].line \in Lines =>
                   (d.parsed[i].isValid <=> Matches(LatchedPattern(d.parsed[i]), d.parsed[i].line))

C6_NoLatchWhenMixed ==
    spotWriter.mixedDeflines =>
        /\ pcFiles # "raised"
        /\ pcFiles \in {"emit", "done"} =>
               /\ fq1.defline.deflineType = None
               /\ isPaired => fq2.defline.deflineType = None

\* ------------------------------------------------------------------------
\* Properties of restart (SpecRestart)
\* ------------------------------------------------------------------------
\* C7: the reads after restart() deliver the deflines the reads of the first
\* pass delivered, in the same order
C7_RestartIdempotent ==
    pcFiles = "pass2" =>
        \A i \in 1..Len(secondPass) : secondPass[i].defline = firstPass[i].defline

\* ------------------------------------------------------------------------
\* SpecResync: one reader reads a file in which a record is followed by a
\* corrupt line and a run of lines that are no deflines, as long as the
\* limit of findValidDefline or one line shorter or longer, then perhaps a
\* blank line, then perhaps a good record.  The actions are those of
\* SpecRestart.
\* ------------------------------------------------------------------------
GarbageRuns == {0, 1, MaxResyncLines - 1, MaxResyncLines, MaxResyncLines + 1}

Garbage(k) == [i \in 1..k |-> "ACGT"]

ResyncHeads == {<<>>, <<"@R1", "ACGT", "+", "IIII">>}

\* nothing (the run itself stands where a defline is expected), a record with
\* a bad sequence, a record with a bad quality
ResyncTriggers == {<<>>, <<"@R1", "II I">>, <<"@R1", "ACGT", "+", "II I">>}

ResyncBlanks == {<<>>, <<BlankLine>>}

ResyncTails == {<<>>, <<"@R2", "ACGT", "+", "IIII">>}

ResyncInit ==
    /\ EightLineIdle
    /\ FileTypesIdle
    /\ QualCallIdle
    /\ PoreFilesIdle
    /\ ParseIdle
    /\ FilePairsIdle
    /\ QualIdle
    /\ PairIdle
    /\ LenIdle
    /\ LoadIdle
    /\ \E h \in ResyncHeads, t \in ResyncTriggers, k \in GarbageRuns, b \in ResyncBlanks,
          e \in ResyncTails :
           ReaderStart(h \o t \o Garbage(k) \o b \o e)

SpecResync == ResyncInit /\ [][RestartNext]_vars

\* C10: every call of findValidDefline read at most 1000 lines, ended fatally
\* only after 1000 lines, and otherwise ended at a line that is the defline
\* the reader went on with
C10_ResyncBounded ==
    \A i \in 1..Len(fq1.resyncs) :
        /\ fq1.resyncs[i].lines <= MaxResyncLines
        /\ fq1.resyncs[i].fatal => fq1.resyncs[i].lines = MaxResyncLines
        /\ ~fq1.resyncs[i].fatal =>
               fq1.resyncs[i].deflineStringSeq = strip(fq1.resyncs[i].accepted)

\* C11: every call of findValidDefline that did not end fatally ended at a
\* non-empty line: none ended at the end of the file or at a blank line
C11_ResyncNeedsDefline ==
    \A i \in 1..Len(fq1.resyncs) :
        ~fq1.resyncs[i].fatal => strip(fq1.resyncs[i].accepted) # ""

\* ------------------------------------------------------------------------
\* SpecCount: a load of one file, or of a pair of files, whose records may
\* have a corrupt sequence line (which forces a resync) or a quality line
\* longer than the sequence (which checkFastqLengths repairs and counts).
\* The actions are those of SpecFiles.
\* ------------------------------------------------------------------------
CountRecords ==
    {<<d, s, "+", q>> : d \in {"@R1", "@R2"}, s \in {"ACGT", "II I"}, q \in {"IIII", "40 40"}}

CountInit ==
    /\ EightLineIdle
    /\ FileTypesIdle
    /\ QualCallIdle
    /\ PoreFilesIdle
    /\ ParseIdle
    /\ FilePairsIdle
    /\ QualIdle
    /\ PairIdle
    /\ LenIdle
    /\ LoadIdle
    /\ \E recs \in SeqsUpTo(CountRecords, MaxCountRecs) : lines1 = Flatten(recs)
    /\ isPaired \in BOOLEAN
    /\ lines2 \in (IF isPaired THEN {Flatten(recs) : recs \in SeqsUpTo(CountRecords, 1)}
                   ELSE {<<>>})
    /\ fq1 = NewReader
    /\ fq2 = NewReader
    /\ bound1 = "fq1"
    /\ bound2 = IF isPaired THEN "fq2" ELSE "None"
    /\ spotWriter = NewSpotWriter(FALSE)
    /\ firstPass = <<>>
    /\ secondPass = <<>>
    /\ pcFiles = "start"

SpecCount == CountInit /\ [][FilesNext]_vars

\* the number of calls of findValidDefline of the two readers so far
ResyncCount == Len(fq1.resyncs) + Len(fq2.resyncs)

\* the records of the last turn of the loop whose quality length, as readQual
\* returned it, differs from the sequence length
LengthErrors ==
    (IF bound1 = "fq1" /\ ~fq1.eof /\ fq1.length # fq1.readLengthQual THEN 1 ELSE 0)
    + (IF "fq2" \in {bound1, bound2} /\ ~fq2.eof /\ fq2.length # fq2.readLengthQual
       THEN 1 ELSE 0)

\* C12 as stated: in every turn of the emission loop the error counter grows
\* by one for each resync of the turn (and by one for each record repaired)
C12_AsStated ==
    [][(pcFiles = "emit" /\ pcFiles' \in {"emit", "done"}) =>
           errorCount' = errorCount + (ResyncCount' - ResyncCount)
                         + (IF pcFiles' = "emit" THEN LengthErrors' ELSE 0)]_vars

\* C12 amended: in every turn of the emission loop the error counter grows by
\* exactly the number of records read in the turn whose sequence and quality
\* lengths differ, however many resyncs the turn made, and after a turn with
\* a resync the load goes on (or ends at the end of the file)
C12_ResyncNotCounted ==
    [][pcFiles = "emit" =>
           /\ pcFiles' \in {"emit", "done"}
           /\ errorCount' = errorCount + (IF pcFiles' = "emit" THEN LengthErrors' ELSE 0)]_vars

\* a load that skipped a corrupt record by a resync, wrote the record after
\* it, and counted no error
C12_Witness ==
    /\ pcFiles = "emit"
    /\ Len(lines1) = 12
    /\ lines1[2] = "ACGT"
    /\ lines1[6] = "II I"
    /\ fq1.deflineStringSeq = lines1[9]
    /\ Len(fq1.resyncs) = 1
    /\ spotWriter.spotCount = 2
    /\ errorCount = 0

\* ------------------------------------------------------------------------
\* Quality offset and log odds: the offset and logOdds options, the prescan
\* and the QUALITY expressions of the tables the writer is opened with
\* ------------------------------------------------------------------------

MaxArgs == 2

MaxPrescanSpots == 2

MaxFiles == 3

\* the values an offset or quality option can carry; "17" is not an offset
OffsetStrings == {"0", "33", "64", "PHRED_0", "PHRED_33", "PHRED_64", "17"}

\* the head of setQualityOffset: the names of the three offsets become numbers,
\* every other value stays what it is
normalizedOffset(offset) ==
    CASE offset \in {"PHRED_0", "0"} -> 0
      [] offset \in {"PHRED_33", "33"} -> 33
      [] offset \in {"PHRED_64", "64"} -> 64
      [] OTHER -> 17

\* FastqSpotWriter.setQualityOffset, offset already a number
setQualityOffset(w, offset, provided) ==
    IF offset # 0 /\ offset # 33 /\ offset # 64
    THEN [w EXCEPT !.fatal = InvalidOffset]
    ELSE IF offset = 64
    THEN [w EXCEPT !.offset = offset,
                   !.tbl.SEQUENCE = IF w.logOdds THEN LOG_ODDS_64 ELSE PHRED_64,
                   !.offsetProvided = IF provided THEN TRUE ELSE @]
    ELSE IF offset = 0
    THEN [w EXCEPT !.offset = offset,
                   !.tbl.SEQUENCE = IF w.logOdds THEN LOG_ODDS ELSE PHRED,
                   !.isNumQual = TRUE,
                   !.offsetProvided = IF provided THEN TRUE ELSE @]
    ELSE IF offset = 33 /\ w.logOdds
    THEN [w EXCEPT !.offset = offset, !.fatal = Combining33]
    ELSE [w EXCEPT !.offset = offset,
                   !.offsetProvided = IF provided THEN TRUE ELSE @]

\* the offset=, quality= and logOdds options of the command line
Options ==
    {[name |-> "offset", value |-> v] : v \in {"0", "33", "64", "17"}}
        \cup {[name |-> "quality", value |-> v] : v \in {"PHRED_0", "PHRED_64"}}
        \cup {[name |-> "logOdds", value |-> ""]}

processArgument(w, arg) ==
    IF arg.name \in {"offset", "quality"}
    THEN setQualityOffset(w, normalizedOffset(arg.value), TRUE)
    ELSE [w EXCEPT !.logOdds = TRUE]

\* processArguments: the options in the order of the command line; a fatal
\* error ends the program at the option that raised it
RECURSIVE processArguments(_, _)
processArguments(w, args) ==
    IF args = <<>> \/ w.fatal # ""
    THEN w
    ELSE processArguments(processArgument(w, Head(args)), Tail(args))

\* A quality string is its values, vals, and how they are written: spaced,
\* the decimal numbers vals with blanks between them, or not spaced, the
\* characters whose ordinals are vals.
RECURSIVE minOf(_)
minOf(vals) ==
    IF Len(vals) = 1 \/ Head(vals) <= minOf(Tail(vals))
    THEN Head(vals)
    ELSE minOf(Tail(vals))

RECURSIVE maxOf(_)
maxOf(vals) ==
    IF Len(vals) = 1 \/ Head(vals) >= maxOf(Tail(vals))
    THEN Head(vals)
    ELSE maxOf(Tail(vals))

\* Qual.parseQual of a new Qual: isNumQual, minQual and maxQual; the ordinals
\* of the characters are taken relative to the offset 33 of the new Qual
qualRange(q) ==
    IF q.spaced
    THEN [isNumQual |-> TRUE,
          minQual |-> IF minOf(q.vals) < 1000 THEN minOf(q.vals) ELSE 1000,
          maxQual |-> IF maxOf(q.vals) > 0 THEN maxOf(q.vals) ELSE 0]
    ELSE [isNumQual |-> FALSE,
          minQual |-> minOf(q.vals) - 33,
          maxQual |-> maxOf(q.vals) - 33]

\* updateQualRangeAndClipStatus for one file: a record without quality is
\* skipped
qualRangeUpdated(w, qual) ==
    IF w.isNumQual /\ ~qual.isNumQual
    THEN [w EXCEPT !.minQual = IF qual.minQual < @ THEN qual.minQual ELSE @,
                   !.maxQual = IF qual.maxQual > @ THEN qual.maxQual ELSE @,
                   !.fatal = MixedQuality]
    ELSE [w EXCEPT !.minQual = IF qual.minQual < @ THEN qual.minQual ELSE @,
                   !.maxQual = IF qual.maxQual > @ THEN qual.maxQual ELSE @,
                   !.isNumQual = qual.isNumQual]

updateQualRangeAndClipStatus(w, q) ==
    IF q.vals = <<>> THEN w ELSE qualRangeUpdated(w, qualRange(q))

\* the loop of processFastqSpots in the prescan: one record after the other
RECURSIVE prescanSpots(_, _)
prescanSpots(w, quals) ==
    IF quals = <<>> \/ w.fatal # ""
    THEN w
    ELSE prescanSpots(updateQualRangeAndClipStatus(w, Head(quals)), Tail(quals))

colorSpaceClamped(w) ==
    IF w.isColorSpace /\ w.minQual = -1 THEN [w EXCEPT !.minQual = 0] ELSE w

determineNumericNoClamp(w) ==
    setQualityOffset(IF w.minQual < 0 THEN [w EXCEPT !.logOdds = TRUE] ELSE w, 0, FALSE)

determineNumeric(w) ==
    setQualityOffset(IF colorSpaceClamped(w).minQual < 0
                     THEN [colorSpaceClamped(w) EXCEPT !.logOdds = TRUE]
                     ELSE colorSpaceClamped(w),
                     0, FALSE)

\* the end of processFiles(True): offset and log odds from what was scanned
determineOffsetAndClip(w) ==
    IF w.fatal # ""
    THEN w
    ELSE IF w.isNumQual
    THEN determineNumeric(w)
    ELSE IF w.minQual > 25 /\ w.maxQual > 45
    THEN setQualityOffset(IF w.minQual + 33 - 64 < 0
                          THEN [w EXCEPT !.logOdds = TRUE]
                          ELSE w,
                          64, FALSE)
    ELSE setQualityOffset(w, 33, FALSE)

\* openGeneralWriter: the CONSENSUS table is deleted unless the platform is
\* Nanopore; the tables left are the ones the writer is opened with
openGeneralWriter(w) ==
    [w EXCEPT !.opened = IF w.platformString = "NANOPORE"
                         THEN {"SEQUENCE", "CONSENSUS"}
                         ELSE {"SEQUENCE"}]

\* quality strings of the records the prescan reads: none (fasta), "II",
\* "hh", ";h", ":h", and the numeric "10 40", "-5 40" and "-1 30"
PrescanQualities ==
    {[spaced |-> FALSE, vals |-> v] : v \in {<<>>, <<73, 73>>, <<104, 104>>, <<59, 104>>,
                                             <<58, 104>>}}
        \cup {[spaced |-> TRUE, vals |-> v] : v \in {<<10, 40>>, <<-5, 40>>, <<-1, 30>>}}

QualInit ==
    /\ argv \in SeqsUpTo(Options, MaxArgs)
    /\ prescanQuals \in SeqsUpTo(PrescanQualities, MaxPrescanSpots)
    /\ \E platformString \in {"", "NANOPORE"}, isColorSpace \in BOOLEAN :
           qualWriter = NewQualWriter(platformString, isColorSpace)
    /\ pcQual = "args"
    /\ EightLineIdle
    /\ FileTypesIdle
    /\ QualCallIdle
    /\ PoreFilesIdle
    /\ ParseIdle
    /\ FilePairsIdle
    /\ PairIdle
    /\ LenIdle
    /\ LoadIdle
    /\ FilesIdle

\* generateArchive: processArguments, then the prescan unless an offset was
\* provided
ProcessArguments ==
    /\ pcQual = "args"
    /\ \E w \in {processArguments(qualWriter, argv)} :
           /\ qualWriter' = w
           /\ pcQual' = IF w.fatal # "" THEN "fatal"
                        ELSE IF w.offsetProvided THEN "open" ELSE "prescan"
    /\ UNCHANGED <<argv, prescanQuals>>
    /\ UNCHANGED <<eightLineVars, fileTypeVars, qualCallVars, poreFilesVars, parseVars, filePairVars, pairVars, lenVars, loadVars, filesVars>>

\* processFiles(True)
Prescan ==
    /\ pcQual = "prescan"
    /\ \E w \in {determineOffsetAndClip(prescanSpots(qualWriter, prescanQuals))} :
           /\ qualWriter' = w
           /\ pcQual' = IF w.fatal # "" THEN "fatal" ELSE "open"
    /\ UNCHANGED <<argv, prescanQuals>>
    /\ UNCHANGED <<eightLineVars, fileTypeVars, qualCallVars, poreFilesVars, parseVars, filePairVars, pairVars, lenVars, loadVars, filesVars>>

\* processFiles(False) up to the first spot: the writer is opened
OpenGeneralWriter ==
    /\ pcQual = "open"
    /\ qualWriter' = openGeneralWriter(qualWriter)
    /\ pcQual' = "emit"
    /\ UNCHANGED <<argv, prescanQuals>>
    /\ UNCHANGED <<eightLineVars, fileTypeVars, qualCallVars, poreFilesVars, parseVars, filePairVars, pairVars, lenVars, loadVars, filesVars>>

QualNext == ProcessArguments \/ Prescan \/ OpenGeneralWriter

SpecQuality == QualInit /\ [][QualNext]_vars

\* what the decision table gives for the scanned range w when log odds was
\* not asked for: <<offset, log odds>>
TableEncoding(w) ==
    IF w.isNumQual
    THEN <<0, ~(w.minQual >= 0 \/ (w.isColorSpace /\ w.minQual = -1))>>
    ELSE IF w.minQual > 25 /\ w.maxQual > 45
    THEN <<64, w.minQual + 33 - 64 < 0>>
    ELSE <<33, FALSE>>

\* the same with the logOdds option given: log odds stays set, and the rows
\* of offset 33 end in the fatal error
ForcedEncoding(w) ==
    IF w.isNumQual
    THEN <<0, TRUE, "">>
    ELSE IF w.minQual > 25 /\ w.maxQual > 45
    THEN <<64, TRUE, "">>
    ELSE <<33, TRUE, Combining33>>

Scanned == prescanSpots(qualWriter, prescanQuals)

\* C13 as stated: whenever the prescan runs and the qualities are not mixed,
\* it ends without an error and with the offset and log odds of the table.
C13_AsStated ==
    [][pcQual = "prescan" /\ Scanned.fatal = ""
         => /\ qualWriter'.fatal = ""
            /\ <<qualWriter'.offset, qualWriter'.logOdds>> = TableEncoding(Scanned)]_vars

\* C13: the prescan result is the one of the decision table when the logOdds
\* option was not given; with the option, log odds stays set: numeric gives
\* offset 0, ASCII with min > 25 and max > 45 gives offset 64, and every
\* other case ends in the fatal error of offset 33 with log odds.
C13_DecisionTable ==
    [][pcQual = "prescan" /\ Scanned.fatal = ""
         => IF qualWriter.logOdds
            THEN <<qualWriter'.offset, qualWriter'.logOdds, qualWriter'.fatal>>
                     = ForcedEncoding(Scanned)
            ELSE <<qualWriter'.offset, qualWriter'.logOdds, qualWriter'.fatal>>
                     = TableEncoding(Scanned) \o <<"">>]_vars

C13_Witness ==
    /\ pcQual = "open"
    /\ argv = <<>>
    /\ ~qualWriter.offsetProvided
    /\ qualWriter.offset = 64
    /\ qualWriter.logOdds
    /\ qualWriter.minQual = 26

\* C14: no run reaches spot emission with offset 33 and log odds.
C14_Never33LogOdds ==
    pcQual = "emit" => ~(qualWriter.offset = 33 /\ qualWriter.logOdds)

\* the QUALITY expression of an offset and a log odds flag
QualityExpression(offset, logOdds) ==
    CASE offset = 33 /\ ~logOdds -> PHRED_33
      [] offset = 64 /\ ~logOdds -> PHRED_64
      [] offset = 64 /\ logOdds -> LOG_ODDS_64
      [] offset = 0 /\ ~logOdds -> PHRED
      [] offset = 0 /\ logOdds -> LOG_ODDS
      [] OTHER -> ""

\* C15: when the writer is opened, the QUALITY expression of every table it
\* is opened with is the one of the final offset and log odds flag.
C15_ExpressionMatches ==
    pcQual = "emit" /\ ~(qualWriter.offset = 33 /\ qualWriter.logOdds)
        => \A t \in qualWriter.opened :
               qualWriter.tbl[t] = QualityExpression(qualWriter.offset, qualWriter.logOdds)

\* ------------------------------------------------------------------------
\* Pairing of files: setFilePairs, processPairedDeflines and the check of
\* the pairs given with read1PairFiles and read2PairFiles
\* ------------------------------------------------------------------------

\* names of the files in sorted order
Files == 1..MaxFiles

DifferentTypes == "Paired files have different file types"

UnrecognizedType1 == "Unrecognized poreRead type1"

UnrecognizedType2 == "Unrecognized poreRead type2"

EightLineTypes == {"eightLine", "multiLineEightLine"}

\* fileReadPairs and filePore2D are dictionaries from a file to a file: 0
\* stands for a file that is not a key
NewPairing(pairs) ==
    [fileTypes |-> [f \in Files |-> ""], fileReadPairs |-> pairs,
     filePore2D |-> [f \in Files |-> 0], fileSkip |-> {}, orphanReads |-> FALSE,
     fatal |-> ""]

\* isEightLineFastq of setFileTypes: two readers on one handle. The second
\* reader reads the record after the one the first has read; a multi-line
\* reader has also taken the defline of the next record from the handle, so
\* the second reader finds the third record of the file.
secondRead(filename) == IF fileMultiLine[filename] THEN 3 ELSE 2

firstTwoPaired(filename) ==
    /\ Len(fileDeflines[filename]) >= secondRead(filename)
    /\ isPairedDeflines(fileDeflines[filename][1],
                        fileDeflines[filename][secondRead(filename)], FALSE) # 0

\* isEightLineFastq, the search for 2D reads in the file
hasPore2D(filename) ==
    /\ fileDeflines[filename][1].poreRead # ""
    /\ \E i \in 1..Len(fileDeflines[filename]) : fileDeflines[filename][i].poreRead = "2D"

fileTyped(st, filename) ==
    IF firstTwoPaired(filename)
    THEN [st EXCEPT !.fileTypes[filename] =
                        IF fileMultiLine[filename] THEN "multiLineEightLine" ELSE "eightLine",
                    !.fileReadPairs[filename] = filename,
                    !.filePore2D[filename] = IF hasPore2D(filename) THEN filename ELSE @,
                    !.orphanReads = @ \/ hasPore2D(filename)]
    ELSE [st EXCEPT !.fileTypes[filename] =
                        IF fileMultiLine[filename] THEN "multiLine" ELSE "normal"]

\* setFileTypes for files that begin with "@"
RECURSIVE setFileTypes(_, _)
setFileTypes(st, filename) ==
    IF filename > MaxFiles
    THEN st
    ELSE setFileTypes(IF filename \in st.fileSkip THEN st ELSE fileTyped(st, filename),
                      filename + 1)

typesChecked(st, filename1, filename2) ==
    IF st.fileTypes[filename1] # st.fileTypes[filename2]
    THEN [st EXCEPT !.fatal = DifferentTypes]
    ELSE st

poreRead1Paired(st, filename1, filename2, d2) ==
    IF d2.poreRead = "complement"
    THEN [st EXCEPT !.fileSkip = @ \cup {filename2}, !.fileReadPairs[filename1] = filename2]
    ELSE IF d2.poreRead = "2D"
    THEN [st EXCEPT !.fileSkip = @ \cup {filename2}, !.filePore2D[filename1] = filename2]
    ELSE [st EXCEPT !.fileSkip = @ \cup {filename2}, !.fatal = UnrecognizedType2]

poreRead2Paired(st, filename1, filename2, d1) ==
    IF d1.poreRead = "complement"
    THEN [st EXCEPT !.fileSkip = @ \cup {filename1}, !.fileReadPairs[filename2] = filename1]
    ELSE IF d1.poreRead = "2D"
    THEN [st EXCEPT !.fileSkip = @ \cup {filename1}, !.filePore2D[filename2] = filename1]
    ELSE [st EXCEPT !.fileSkip = @ \cup {filename1}, !.fatal = UnrecognizedType1]

\* processPairedDeflines
processPairedDeflines(st, filename1, filename2, d1, d2, paired) ==
    IF d1.poreRead # ""
    THEN IF paired = 1
         THEN poreRead1Paired(st, filename1, filename2, d2)
         ELSE poreRead2Paired(st, filename1, filename2, d1)
    ELSE IF paired = 1
    THEN typesChecked([st EXCEPT !.fileReadPairs[filename1] = filename2,
                                 !.fileSkip = @ \cup {filename2}],
                      filename1, filename2)
    ELSE typesChecked([st EXCEPT !.fileReadPairs[filename2] = filename1,
                                 !.fileSkip = @ \cup {filename1}],
                      filename1, filename2)

\* the files a loop of setFilePairs passes over
isDone(st, filename1) ==
    \/ filename1 \in st.fileSkip
    \/ st.fileReadPairs[filename1] # 0
    \/ st.filePore2D[filename1] # 0

\* the test that ends the search for the pair of filename1
pairFound(st, filename1, filename2, d1) ==
    \/ st.fileReadPairs[filename1] # 0
           /\ (d1.poreRead = "" \/ st.filePore2D[filename1] # 0)
    \/ st.fileReadPairs[filename2] # 0
    \/ st.filePore2D[filename2] # 0

\* the defline of the first record of a file
firstDefline(filename) == fileDeflines[filename][1]

\* setFilePairs, first loop: the files after filename1 that are not skipped,
\* first record against first record
RECURSIVE pairFirstReads(_, _, _)
firstReadsPaired(st, filename1, filename2) ==
    IF st.fatal # "" \/ pairFound(st, filename1, filename2, firstDefline(filename1))
    THEN st
    ELSE pairFirstReads(st, filename1, filename2 + 1)

pairFirstReads(st, filename1, filename2) ==
    IF filename2 > MaxFiles
    THEN st
    ELSE IF filename2 \in st.fileSkip
            \/ isPairedDeflines(firstDefline(filename1), firstDefline(filename2), FALSE) = 0
    THEN pairFirstReads(st, filename1, filename2 + 1)
    ELSE firstReadsPaired(
             processPairedDeflines(st, filename1, filename2, firstDefline(filename1),
                                   firstDefline(filename2),
                                   isPairedDeflines(firstDefline(filename1),
                                                    firstDefline(filename2), FALSE)),
             filename1, filename2)

RECURSIVE setFilePairsFirstReads(_, _)
setFilePairsFirstReads(st, filename1) ==
    IF filename1 > MaxFiles \/ st.fatal # ""
    THEN st
    ELSE IF isDone(st, filename1)
    THEN setFilePairsFirstReads(st, filename1 + 1)
    ELSE setFilePairsFirstReads(pairFirstReads(st, filename1, filename1 + 1), filename1 + 1)

\* file1Reads: the records of a file whose names were seen first, as the
\* set of their positions; the defline stored for a name
inFile1Reads(filename1, seen, name) ==
    \E j \in seen : fileDeflines[filename1][j].name = name

file1Reads(filename1, seen, name) ==
    fileDeflines[filename1][CHOOSE j \in seen : fileDeflines[filename1][j].name = name]

eightLineType(type) ==
    IF type = "normal" THEN "eightLine"
    ELSE IF type = "multiLine" THEN "multiLineEightLine"
    ELSE type

\* second loop, a name of filename1 read for the second time: the file is
\* eight line fastq with orphan reads
eightLineFound(st, filename1, d1, defline) ==
    [st EXCEPT !.orphanReads = TRUE,
               !.fileReadPairs[filename1] = filename1,
               !.fileTypes[filename1] = eightLineType(@),
               !.filePore2D[filename1] =
                   IF defline.poreRead # "" /\ (d1.poreRead = "2D" \/ defline.poreRead = "2D")
                   THEN filename1
                   ELSE @]

\* second loop, the reads of filename1: the state and the positions seen
RECURSIVE readFile1(_, _, _, _)
eightLineRead(st, filename1, i, seen) ==
    IF fileDeflines[filename1][i].poreRead = "" \/ st.filePore2D[filename1] # 0
    THEN [st |-> st, seen |-> seen]
    ELSE readFile1(st, filename1, i + 1, seen)

readFile1(st, filename1, i, seen) ==
    IF i > Len(fileDeflines[filename1])
    THEN [st |-> st, seen |-> seen]
    ELSE IF inFile1Reads(filename1, seen, fileDeflines[filename1][i].name)
    THEN eightLineRead(eightLineFound(st, filename1,
                                      file1Reads(filename1, seen, fileDeflines[filename1][i].name),
                                      fileDeflines[filename1][i]),
                       filename1, i, seen)
    ELSE readFile1(st, filename1, i + 1, seen \cup {i})

\* second loop, the reads of filename2 against file1Reads: the state and
\* fastq1.defline, which is parsed again for every name that is found
RECURSIVE readFile2(_, _, _, _, _)
file2Paired(ps, filename1, filename2, seen, i) ==
    IF ps.st.fatal # "" \/ pairFound(ps.st, filename1, filename2, ps.cur)
    THEN ps
    ELSE readFile2(ps, filename1, filename2, seen, i + 1)

file2NameFound(st, filename1, filename2, seen, i, d1, d2) ==
    IF isPairedDeflines(d1, d2, FALSE) = 0
    THEN readFile2([st |-> st, cur |-> d1], filename1, filename2, seen, i + 1)
    ELSE file2Paired([st |-> processPairedDeflines([st EXCEPT !.orphanReads = TRUE],
                                                   filename1, filename2, d1, d2,
                                                   isPairedDeflines(d1, d2, FALSE)),
                      cur |-> d1],
                     filename1, filename2, seen, i)

readFile2(ps, filename1, filename2, seen, i) ==
    IF i > Len(fileDeflines[filename2])
    THEN ps
    ELSE IF inFile1Reads(filename1, seen, fileDeflines[filename2][i].name)
    THEN file2NameFound(ps.st, filename1, filename2, seen, i,
                        file1Reads(filename1, seen, fileDeflines[filename2][i].name),
                        fileDeflines[filename2][i])
    ELSE readFile2(ps, filename1, filename2, seen, i + 1)

\* second loop, the files after filename1 that are not skipped
RECURSIVE pairOrphanReads(_, _, _, _)
orphanReadsPaired(ps, filename1, filename2, seen) ==
    IF ps.st.fatal # "" \/ pairFound(ps.st, filename1, filename2, ps.cur)
    THEN ps.st
    ELSE pairOrphanReads(ps, filename1, filename2 + 1, seen)

pairOrphanReads(ps, filename1, filename2, seen) ==
    IF filename2 > MaxFiles
    THEN ps.st
    ELSE IF filename2 \in ps.st.fileSkip
    THEN pairOrphanReads(ps, filename1, filename2 + 1, seen)
    ELSE orphanReadsPaired(readFile2(ps, filename1, filename2, seen, 1),
                           filename1, filename2, seen)

file1Read(r, filename1) ==
    IF r.st.fileTypes[filename1] \in EightLineTypes
    THEN r.st
    ELSE pairOrphanReads([st |-> r.st, cur |-> firstDefline(filename1)],
                         filename1, filename1 + 1, r.seen)

RECURSIVE setFilePairsOrphans(_, _)
setFilePairsOrphans(st, filename1) ==
    IF filename1 > MaxFiles \/ st.fatal # ""
    THEN st
    ELSE IF isDone(st, filename1)
    THEN setFilePairsOrphans(st, filename1 + 1)
    ELSE setFilePairsOrphans(file1Read(readFile1(st, filename1, 1, {}), filename1),
                             filename1 + 1)

ReadLimit == 50000

\* third loop, the reads of filename1: they are kept while they are 2D reads;
\* the loop ends before the end of the file only at the read limit, and at
\* the end of the file the defline is empty
RECURSIVE pore2DReads(_, _)
pore2DReads(filename1, i) ==
    IF i > Len(fileDeflines[filename1]) \/ fileDeflines[filename1][i].poreRead # "2D"
       \/ i > ReadLimit
    THEN i - 1
    ELSE pore2DReads(filename1, i + 1)

\* third loop, the reads of filename2 against the 2D reads of filename1
RECURSIVE readFile2Pore(_, _, _, _)
file2PoreFound(st, filename1, filename2, i, d1, d2) ==
    IF isPairedDeflines(d1, d2, FALSE) = 0
    THEN readFile2Pore(st, filename1, filename2, i + 1)
    ELSE readFile2Pore(processPairedDeflines([st EXCEPT !.orphanReads = TRUE],
                                             filename1, filename2, d1, d2,
                                             isPairedDeflines(d1, d2, FALSE)),
                       filename1, filename2, i + 1)

readFile2Pore(st, filename1, filename2, i) ==
    IF i > Len(fileDeflines[filename2]) \/ st.fatal # "" \/ st.filePore2D[filename2] # 0
    THEN st
    ELSE IF inFile1Reads(filename1, 1..ReadLimit, fileDeflines[filename2][i].name)
    THEN file2PoreFound(st, filename1, filename2, i,
                        file1Reads(filename1, 1..ReadLimit, fileDeflines[filename2][i].name),
                        fileDeflines[filename2][i])
    ELSE readFile2Pore(st, filename1, filename2, i + 1)

RECURSIVE pairPore2D(_, _, _)
pairPore2D(st, filename1, filename2) ==
    IF filename2 > MaxFiles \/ st.fatal # ""
    THEN st
    ELSE IF filename2 = filename1 \/ filename2 \in st.fileSkip \/ st.filePore2D[filename2] # 0
    THEN pairPore2D(st, filename1, filename2 + 1)
    ELSE IF readFile2Pore(st, filename1, filename2, 1).filePore2D[filename2] # 0
    THEN readFile2Pore(st, filename1, filename2, 1)
    ELSE pairPore2D(readFile2Pore(st, filename1, filename2, 1), filename1, filename2 + 1)

RECURSIVE setFilePairsPore2D(_, _)
setFilePairsPore2D(st, filename1) ==
    IF filename1 > MaxFiles \/ st.fatal # ""
    THEN st
    ELSE IF isDone(st, filename1) \/ pore2DReads(filename1, 1) < ReadLimit
    THEN setFilePairsPore2D(st, filename1 + 1)
    ELSE setFilePairsPore2D(pairPore2D(st, filename1, 1), filename1 + 1)

\* generateArchive, the pairs given with read1PairFiles and read2PairFiles
RECURSIVE checkProvidedPairs(_, _)
providedPairChecked(st, filename1, filename2) ==
    typesChecked(IF filename1 # filename2
                 THEN [st EXCEPT !.fileSkip = @ \cup {filename2}]
                 ELSE st,
                 filename1, filename2)

checkProvidedPairs(st, filename1) ==
    IF filename1 > MaxFiles \/ st.fatal # ""
    THEN st
    ELSE IF st.fileReadPairs[filename1] = 0
    THEN checkProvidedPairs(st, filename1 + 1)
    ELSE checkProvidedPairs(providedPairChecked(st, filename1, st.fileReadPairs[filename1]),
                            filename1 + 1)

PoreDefline(name, poreRead) ==
    [name |-> name, readNum |-> 0, poreRead |-> poreRead, tagType |-> "",
     deflineString |-> <<>>]

ReadDefline(name, readNum) ==
    [name |-> name, readNum |-> readNum, poreRead |-> "", tagType |-> "",
     deflineString |-> <<>>]

\* the deflines of the records of a file
FileContents ==
    {<<ReadDefline(1, 1)>>,
     <<ReadDefline(1, 2)>>,
     <<ReadDefline(2, 1), ReadDefline(1, 1)>>,
     <<ReadDefline(1, 1), ReadDefline(1, 2)>>,
     <<ReadDefline(1, 1), ReadDefline(2, 1), ReadDefline(1, 2)>>,
     <<PoreDefline(3, "template")>>,
     <<PoreDefline(3, "complement")>>,
     <<PoreDefline(3, "2D")>>,
     <<PoreDefline(3, "template"), PoreDefline(3, "complement"), PoreDefline(3, "2D")>>}

FilePairsInit ==
    /\ fileMultiLine \in [Files -> BOOLEAN]
    /\ pairFilesProvided \in BOOLEAN
    /\ IF pairFilesProvided
       THEN /\ fileDeflines = [f \in Files |-> <<ReadDefline(1, 1)>>]
            /\ \E pairs \in [Files -> 0..MaxFiles] : pairing = NewPairing(pairs)
       ELSE /\ fileDeflines \in [Files -> FileContents]
            /\ pairing = NewPairing([f \in Files |-> 0])
    /\ pcFilePairs = "types"
    /\ EightLineIdle
    /\ FileTypesIdle
    /\ QualCallIdle
    /\ PoreFilesIdle
    /\ ParseIdle
    /\ PairIdle
    /\ LenIdle
    /\ LoadIdle
    /\ FilesIdle
    /\ QualIdle

FilePairsStep(st, next) ==
    /\ pairing' = st
    /\ pcFilePairs' = IF st.fatal # "" THEN "fatal" ELSE next
    /\ UNCHANGED <<fileDeflines, fileMultiLine, pairFilesProvided>>
    /\ UNCHANGED <<eightLineVars, fileTypeVars, qualCallVars, poreFilesVars, parseVars, pairVars, lenVars, loadVars, filesVars, qualVars>>

SetFileTypes ==
    /\ pcFilePairs = "types"
    /\ FilePairsStep(setFileTypes(pairing, 1),
                     IF pairFilesProvided THEN "provided" ELSE "firstReads")

CheckProvidedPairs ==
    /\ pcFilePairs = "provided"
    /\ FilePairsStep(checkProvidedPairs(pairing, 1), "process")

SetFilePairsFirstReads ==
    /\ pcFilePairs = "firstReads"
    /\ FilePairsStep(setFilePairsFirstReads(pairing, 1), "orphans")

SetFilePairsOrphans ==
    /\ pcFilePairs = "orphans"
    /\ FilePairsStep(setFilePairsOrphans(pairing, 1), "pore2D")

SetFilePairsPore2D ==
    /\ pcFilePairs = "pore2D"
    /\ FilePairsStep(setFilePairsPore2D(pairing, 1), "process")

\* processFiles(False): spots are written
ProcessPairedFiles ==
    /\ pcFilePairs = "process"
    /\ FilePairsStep(pairing, "written")

FilePairsNext ==
    \/ SetFileTypes
    \/ CheckProvidedPairs
    \/ SetFilePairsFirstReads
    \/ SetFilePairsOrphans
    \/ SetFilePairsPore2D
    \/ ProcessPairedFiles

SpecFilePairs == FilePairsInit /\ [][FilePairsNext]_vars

\* the pairs of two distinct files that are recorded
RecordedPairs ==
    {<<f, pairing.fileReadPairs[f]>> : f \in {g \in Files : pairing.fileReadPairs[g] # 0}}
        \cup {<<f, pairing.filePore2D[f]>> : f \in {g \in Files : pairing.filePore2D[g] # 0}}

\* C16: when spots are written, the two files of every recorded pair of
\* distinct files have the same file type.
C16_PairsShareType ==
    pcFilePairs \in {"process", "written"}
        => \A p \in RecordedPairs : pairing.fileTypes[p[1]] = pairing.fileTypes[p[2]]

\* a file processFiles does not pass over
IsPrimary(f) == f \notin pairing.fileSkip

\* the files processFiles reads along with the primary file p
PartnersOf(p) == {pairing.fileReadPairs[p], pairing.filePore2D[p]} \ {0, p}

\* the primary files that take the file f along
PrimariesOf(f) == {p \in Files : IsPrimary(p) /\ f \in PartnersOf(p)}

\* C28: after setFileTypes and setFilePairs every file is a primary file or the partner
\* of exactly one primary file, and no file of fileSkip is a key of fileReadPairs.
C28_NoFileLost ==
    (pcFilePairs \in {"process", "written"} /\ ~pairFilesProvided) =>
        /\ \A f \in Files : IsPrimary(f) \/ Cardinality(PrimariesOf(f)) = 1
        /\ \A f \in pairing.fileSkip : pairing.fileReadPairs[f] = 0

\* ------------------------------------------------------------------------
\* One Defline object and the lines it is given: the first line that parses
\* latches the variant, every later line is parsed as that variant
\* ------------------------------------------------------------------------
MaxParses == 2

\* FastqReader.__init__: the Defline of a reader knows the name of its file
ParseInit ==
    /\ EightLineIdle
    /\ FileTypesIdle
    /\ QualCallIdle
    /\ PoreFilesIdle
    /\ FilePairsIdle
    /\ QualIdle
    /\ PairIdle
    /\ LenIdle
    /\ LoadIdle
    /\ FilesIdle
    /\ \E filename \in FileNames : parser = [NewDefline EXCEPT !.filename = filename]

\* a call that exits or raises ends the program
ParseDeflineString ==
    /\ parser.abort = ""
    /\ Len(parser.parsed) < MaxParses
    /\ \E s \in ParseLines : parser' = parseDeflineString(parser, s)
    /\ UNCHANGED <<eightLineVars, fileTypeVars, qualCallVars, poreFilesVars, pairVars, lenVars, loadVars, filesVars, qualVars, filePairVars>>

\* discardDeflineType: with mixedDeflines no variant is retained from now on
DiscardDeflineType ==
    /\ parser.abort = ""
    /\ parser.saveDeflineType
    /\ parser' = [parser EXCEPT !.saveDeflineType = FALSE]
    /\ UNCHANGED <<eightLineVars, fileTypeVars, qualCallVars, poreFilesVars, pairVars, lenVars, loadVars, filesVars, qualVars, filePairVars>>

ParseNext == ParseDeflineString \/ DiscardDeflineType

SpecParse == ParseInit /\ [][ParseNext]_vars

\* C17: a call of parseDeflineString never raises and never ends the program:
\* it returns with the Defline valid or not valid.
C17_NeverAborts == parser.abort = ""

\* C20: after a defline is parsed, the spot group of the Defline is not "0".
C20_NoSpotGroupZero ==
    (parser.parsed # <<>> /\ parser.abort = "" /\ parser.isValid)
        => parser.spotGroup # <<"0">>

\* the suffix of the Nanopore defline parsed last: the group poreRead of the pattern
\* the defline matches
LastPoreSuffix ==
    LET s == parser.parsed[Len(parser.parsed)].line
    IN  IF s \in nanopore THEN nanoporeGroups("nanopore", s).poreRead
        ELSE IF s \in nanopore2 THEN nanoporeGroups("nanopore2", s).poreRead
        ELSE IF s \in nanopore3 THEN nanoporeGroups("nanopore3", s).poreRead
        ELSE "None"

\* the Nanopore branch has parsed the last defline, and the defline has a suffix
PoreSuffixParsed ==
    /\ parser.parsed # <<>>
    /\ parser.abort = ""
    /\ parser.isValid
    /\ parser.poreRead # ""
    /\ LastPoreSuffix \notin {"None", ""}

\* C24: after a Nanopore defline with a read-kind suffix is parsed, poreRead is "2D"
\* for the suffixes _twodirections, -2D and _2d, "template" for _template and -1D,
\* and "complement" for _complement and -complement.
C24_PoreReadNormalized ==
    PoreSuffixParsed =>
        /\ LastPoreSuffix \in {"_twodirections", "-2D", "_2d"} => parser.poreRead = "2D"
        /\ LastPoreSuffix \in {"_template", "-1D"} => parser.poreRead = "template"
        /\ LastPoreSuffix \in {"_complement", "-complement"} => parser.poreRead = "complement"

\* ------------------------------------------------------------------------
\* READ_TYPE of a pair of files: the writer with its two technical-read
\* flags either way, then the load of the pair
\* ------------------------------------------------------------------------
Biological == 1

Technical == 0

MaxTypedRecs == 3

\* a read of no base or of one base with a quality of the same length
TypedKind(readNum, name, seqLen) ==
    [name |-> name, readNum |-> readNum, seqLen |-> seqLen, qualLen |-> seqLen]

\* two files of as many reads, all of one name but for the last read of the
\* second file, which may carry another name
TypesInit ==
    /\ EightLineIdle
    /\ FileTypesIdle
    /\ QualCallIdle
    /\ PoreFilesIdle
    /\ ParseIdle
    /\ FilePairsIdle
    /\ QualIdle
    /\ FilesIdle
    /\ PairIdle
    /\ LenIdle
    /\ \E read1IsTechnical \in BOOLEAN, read2IsTechnical \in BOOLEAN,
          orphanReads \in BOOLEAN, n \in 1..MaxTypedRecs, last \in 1..MaxName :
       \E len1 \in [1..n -> 0..1], len2 \in [1..n -> 0..1] :
           LoadStartOf(FileOf([i \in 1..n |-> TypedKind(1, 1, len1[i])], 1, FALSE),
                       FileOf([i \in 1..n |->
                                  TypedKind(2, IF i = n THEN last ELSE 1, len2[i])],
                              2, FALSE),
                       "other",
                       [NewWriter(FALSE, orphanReads, DefaultMaxErrorCount)
                           EXCEPT !.sw.read1IsTechnical = read1IsTechnical,
                                  !.sw.read2IsTechnical = read2IsTechnical])

SpecTypes == TypesInit /\ [][LoadNext]_vars

\* the load of a pair of files before its first spot is read
PairedLoadStarts ==
    /\ pcLoad = "main"
    /\ pairMode = "other"
    /\ handlePos = [h1 |-> 0, h2 |-> 0]
    /\ ~writer.sw.orphanReads
    /\ writer.sw.platformString # "NANOPORE"

PairRows == {i \in 1..Len(writer.gw) : writer.gw[i].by = "processPairFastqSpot"}

FullPairRows ==
    {i \in PairRows : writer.gw[i].READ_LENGTH[1] > 0 /\ writer.gw[i].READ_LENGTH[2] > 0}

EmptyMateRows == PairRows \ FullPairRows

\* C30: in a paired non-orphan load a spot with one empty mate is written
\* with that mate Technical, and every later spot with bases in both mates
\* is written with the READ_TYPE of the spots before the empty mate.
C30_ReadTypeKept ==
    /\ \A e \in EmptyMateRows :
           \A m \in 1..2 : writer.gw[e].READ_LENGTH[m] = 0
                               => writer.gw[e].READ_TYPE[m] = Technical
    /\ \A i \in FullPairRows, e \in EmptyMateRows, j \in FullPairRows :
           (i < e /\ e < j) => writer.gw[j].READ_TYPE = writer.gw[i].READ_TYPE

\* ------------------------------------------------------------------------
\* Read lengths and read types of the command line, and the load of a single
\* file of reads that are cut by them
\* ------------------------------------------------------------------------
MaxReads == 4

MaxMultiLen == 7

\* the text between two commas of the readLens option; "x" is no integer
LenTokens == {<<"0">>, <<"3">>, <<"x">>}

ReadLensArgs == UNION {[1..n -> LenTokens] : n \in 2..MaxReads}

\* the value of the readTypes option: all reads biological, or the first technical
ReadTypesArgs ==
    UNION {{Repeat(<<"B">>, n), <<"T">> \o Repeat(<<"B">>, n - 1)} : n \in 2..MaxReads}

RECURSIVE SumTo(_, _)
SumTo(lens, n) == IF n <= 0 THEN 0 ELSE SumTo(lens, n - 1) + lens[n]

\* setReadLengths of the tokens of the option: each token an integer, the
\* start of a read the sum of the lengths before it
setReadLengths(w, readLens) ==
    LET readLenCount == Len(readLens)
        lens == [i \in 1..readLenCount |-> IntOf(readLens[i])]
    IN  IF w.sw.readCount # 0 /\ readLenCount # w.sw.readCount
        THEN [w EXCEPT !.fatal = "Read count disagreement"]
        ELSE IF \E i \in 1..readLenCount : ~IsInt(readLens[i])
        THEN [w EXCEPT !.fatal = "Non-integer length specified"]
        ELSE [w EXCEPT !.sw.readCount = readLenCount,
                       !.sw.readLengths = lens,
                       !.sw.readStarts = [i \in 1..readLenCount |-> SumTo(lens, i - 1)],
                       !.sw.variableLengthSpecified =
                           @ \/ \E i \in 1..readLenCount : lens[i] = 0,
                       !.sw.lengthsProvided = TRUE]

\* setReadTypes of the letters of the option
setReadTypes(w, readTypeString) ==
    LET typeCount == Len(readTypeString)
    IN  IF \E i \in 1..typeCount : readTypeString[i] \notin {"B", "T"}
        THEN [w EXCEPT !.fatal = "Invalid read type specified"]
        ELSE IF w.sw.readCount # 0 /\ typeCount # w.sw.readCount
        THEN [w EXCEPT !.fatal = "Read count disagreement"]
        ELSE [w EXCEPT !.sw.readCount = typeCount,
                       !.sw.readTypes =
                           [i \in 1..typeCount |->
                               IF readTypeString[i] = "B" THEN Biological ELSE Technical]]

\* processArguments for the readLens option and, when hasTypes, the readTypes
\* option after it, and its test that lengths and types are as many
readOptions(w, readLens, readTypeString, hasTypes) ==
    LET w1 == setReadLengths(w, readLens)
        w2 == IF hasTypes /\ w1.fatal = "" THEN setReadTypes(w1, readTypeString) ELSE w1
    IN  IF /\ w2.fatal = ""
           /\ w2.sw.lengthsProvided
           /\ Len(w2.sw.readLengths) # Len(w2.sw.readTypes)
        THEN [w2 EXCEPT !.fatal = "must have the same number of values"]
        ELSE w2

MultiKinds == {[name |-> 1, readNum |-> 0, seqLen |-> l, qualLen |-> l] : l \in 1..MaxMultiLen}

LensInit ==
    /\ EightLineIdle
    /\ FileTypesIdle
    /\ QualCallIdle
    /\ PoreFilesIdle
    /\ ParseIdle
    /\ FilePairsIdle
    /\ QualIdle
    /\ FilesIdle
    /\ PairIdle
    /\ LenIdle
    /\ \E readLens \in ReadLensArgs, readTypeString \in ReadTypesArgs, hasTypes \in BOOLEAN,
          a \in MultiKinds :
           LoadStartOf(FileOf(<<a>>, 1, FALSE), <<>>, "none",
                       readOptions(NewWriter(FALSE, FALSE, DefaultMaxErrorCount),
                                   readLens, readTypeString, hasTypes))

\* a single file is never read again after its pass
LensNext == EmitStep \/ EndMainPass

SpecLens == LensInit /\ [][LensNext]_vars

\* the rows of the spots that were cut by the lengths given
MultiReadRows ==
    {i \in 1..Len(writer.gw) : writer.gw[i].by = "processMultiReadSingleFastqSpot"}

ZeroLengths == {i \in 1..writer.sw.readCount : writer.sw.readLengths[i] = 0}

\* the lengths given with the one zero among them replaced by what the
\* other lengths leave of a read of n bases
FilledLengths(n) ==
    [i \in 1..writer.sw.readCount |->
        IF i \in ZeroLengths
        THEN n - SumTo(writer.sw.readLengths, writer.sw.readCount)
        ELSE writer.sw.readLengths[i]]

\* C19: in multi-read single-file mode with 2, 3 or 4 read lengths of which
\* exactly one is zero (at any position), every spot is written with the
\* zero entry replaced by |seq| minus the sum of the other lengths, the other
\* entries unchanged, and READ_START the running sum of READ_LENGTH.
C19_FillToEnd ==
    (/\ writer.sw.lengthsProvided
     /\ writer.sw.readCount \in 2..4
     /\ Cardinality(ZeroLengths) = 1)
        => /\ writer.fatal # "OverflowError"
           /\ \A r \in MultiReadRows :
                  /\ writer.gw[r].READ_LENGTH = FilledLengths(Len(writer.gw[r].READ))
                  /\ writer.gw[r].READ_START =
                         [i \in 1..writer.sw.readCount |->
                             SumTo(writer.gw[r].READ_LENGTH, i - 1)]


\* ------------------------------------------------------------------------
\* Qual.parseQual on a line of numbers.  The line is the sequence of its
\* characters; a token is a part of it between blanks
\* ------------------------------------------------------------------------
MaxTokenLen == 4

MaxTokens == 2

QualChars == {"-", "0", "1"}

QualTokens == SeqsUpTo(QualChars, MaxTokenLen) \ {<<>>}

RECURSIVE JoinTokens(_)
\* the tokens with one blank between them
JoinTokens(toks) ==
    IF toks = <<>> THEN <<>>
    ELSE IF Len(toks) = 1 THEN toks[1]
    ELSE toks[1] \o <<" ">> \o JoinTokens(Tail(toks))

\* ord(c)
ordOf(c) ==
    CASE c = " " -> 32
      [] c = "\"" -> 34
      [] c = "+" -> 43
      [] c = "-" -> 45
      [] c = "0" -> 48
      [] c = "1" -> 49
      [] c = "I" -> 73

RECURSIVE stripLeft(_)
stripLeft(cs) == IF cs # <<>> /\ cs[1] = " " THEN stripLeft(Tail(cs)) ELSE cs

RECURSIVE stripRight(_)
stripRight(cs) ==
    IF cs # <<>> /\ cs[Len(cs)] = " " THEN stripRight(SubSeq(cs, 1, Len(cs) - 1)) ELSE cs

\* str.strip()
stripped(cs) == stripRight(stripLeft(cs))

\* the place of the first blank of the line, 0 when it has none
FirstBlank(cs) ==
    IF \E i \in 1..Len(cs) : cs[i] = " "
    THEN CHOOSE i \in 1..Len(cs) : cs[i] = " " /\ \A j \in 1..(i - 1) : cs[j] # " "
    ELSE 0

RECURSIVE Tokens(_)
\* str.split()
Tokens(cs) ==
    IF cs = <<>> THEN <<>>
    ELSE IF FirstBlank(cs) = 0 THEN <<cs>>
    ELSE IF FirstBlank(cs) = 1 THEN Tokens(Tail(cs))
    ELSE <<SubSeq(cs, 1, FirstBlank(cs) - 1)>> \o Tokens(SubSeq(cs, FirstBlank(cs) + 1, Len(cs)))

\* str.isdigit() of a text of these characters
isDigits(cs) == cs # <<>> /\ \A i \in 1..Len(cs) : cs[i] \in {"0", "1"}

isInt(qStr) ==
    IF qStr[1] \in {"-", "+"} THEN isDigits(Tail(qStr)) ELSE isDigits(qStr)

RECURSIVE natOf(_)
natOf(ds) ==
    IF ds = <<>> THEN 0
    ELSE 10 * natOf(SubSeq(ds, 1, Len(ds) - 1)) + (ordOf(ds[Len(ds)]) - ordOf("0"))

\* int(qualSubString) of a token isInt accepts
intOf(qStr) ==
    IF qStr[1] = "-" THEN 0 - natOf(Tail(qStr))
    ELSE IF qStr[1] = "+" THEN natOf(Tail(qStr))
    ELSE natOf(qStr)

\* Qual(None) of a reader whose kind of quality is known or not; "exit" tells that
\* parseQual ended the program with sys.exit
QualWith(isNumQual, isAscQual) ==
    [qual |-> <<>>, length |-> 0, isValid |-> FALSE, isNumQual |-> isNumQual,
     isAscQual |-> isAscQual, offset |-> 33, minQual |-> 1000, maxQual |-> 0,
     minOrd |-> 1000, maxOrd |-> 0, exit |-> FALSE]

\* the body of the loop over the tokens up to the test of maxQual
numQualCounted(q, v) ==
    [q EXCEPT !.minQual = IF v < q.minQual THEN v ELSE q.minQual,
              !.maxQual = IF v > q.maxQual THEN v ELSE q.maxQual,
              !.length = q.length + 1]

RECURSIVE numQualLoop(_, _)
\* "if self.maxQual > 100: sys.exit"
numQualChecked(q, rest) ==
    IF q.maxQual > 100 THEN [q EXCEPT !.exit = TRUE] ELSE numQualLoop(q, rest)

\* "for qualSubString in self.qual.split()"
numQualLoop(q, toks) ==
    IF toks = <<>> THEN q
    ELSE IF ~isInt(Head(toks)) THEN [q EXCEPT !.length = 0]
    ELSE numQualChecked(numQualCounted(q, intOf(Head(toks))), Tail(toks))

\* after the loop over the tokens
numQualDone(q) ==
    IF q.exit \/ q.length = 0 THEN q ELSE [q EXCEPT !.isValid = TRUE, !.isNumQual = TRUE]

RECURSIVE ordLoop(_, _)
\* "for c in self.qual"
ordLoop(q, cs) ==
    IF cs = <<>> THEN q
    ELSE ordLoop([q EXCEPT !.minOrd = IF ordOf(Head(cs)) < q.minOrd THEN ordOf(Head(cs))
                                      ELSE q.minOrd,
                           !.maxOrd = IF ordOf(Head(cs)) > q.maxOrd THEN ordOf(Head(cs))
                                      ELSE q.maxOrd],
                 Tail(cs))

\* after the loop over the characters
ascQualDone(q) ==
    IF q.maxOrd <= 126
    THEN [q EXCEPT !.length = Len(q.qual), !.minQual = q.minOrd - q.offset,
                   !.maxQual = q.maxOrd - q.offset, !.isValid = TRUE, !.isAscQual = TRUE]
    ELSE q

\* "if self.isNumQual or ( not self.isAscQual and " " in self.qual )"
TakenAsNumbers(q, cs) == q.isNumQual \/ (~q.isAscQual /\ FirstBlank(cs) # 0)

\* parseQual after its fields are set anew
parseQualBranch(q) ==
    IF Len(q.qual) = 0 THEN q
    ELSE IF TakenAsNumbers(q, q.qual) THEN numQualDone(numQualLoop(q, Tokens(q.qual)))
    ELSE ascQualDone(ordLoop(q, q.qual))

\* Qual.parseQual
parseQualString(q, qualString) ==
    parseQualBranch([q EXCEPT !.qual = stripped(qualString), !.length = 0, !.isValid = FALSE,
                              !.minQual = 1000, !.maxQual = 0, !.minOrd = 1000,
                              !.maxOrd = 0])

\* a Qual of either kind or of no kind yet, and a line of up to MaxTokens tokens
ParseQualInit ==
    /\ EightLineIdle
    /\ FileTypesIdle
    /\ PoreFilesIdle
    /\ FilePairsIdle
    /\ QualIdle
    /\ PairIdle
    /\ LenIdle
    /\ LoadIdle
    /\ FilesIdle
    /\ ParseIdle
    /\ \E toks \in SeqsUpTo(QualTokens, MaxTokens), isNumQual \in BOOLEAN, isAscQual \in BOOLEAN :
          /\ ~(isNumQual /\ isAscQual)
          /\ qualCall = [pc |-> "parseQual", q |-> QualWith(isNumQual, isAscQual),
                         qualString |-> JoinTokens(toks)]

ParseQual ==
    /\ qualCall.pc = "parseQual"
    /\ qualCall' = [pc |-> "parsed", q |-> parseQualString(qualCall.q, qualCall.qualString),
                    qualString |-> qualCall.qualString, before |-> qualCall.q]
    /\ UNCHANGED <<eightLineVars, fileTypeVars, poreFilesVars, pairVars, lenVars, loadVars, filesVars, qualVars, filePairVars,
                   parseVars>>

SpecParseQual == ParseQualInit /\ [][ParseQual]_vars

\* the numbers of the tokens of a line that are signed integers
TokenValues(toks) == {intOf(toks[i]) : i \in {j \in 1..Len(toks) : isInt(toks[j])}}

\* a line of tokens was parsed in numeric mode
ParsedAsNumbers ==
    /\ qualCall.pc = "parsed"
    /\ qualCall.qualString # <<>>
    /\ TakenAsNumbers(qualCall.before, qualCall.qualString)

\* what C26 says of a line none of whose tokens is above 100 or below -100
NumbersInRange(q, toks) ==
    /\ ~q.exit
    /\ q.isValid <=> \A i \in 1..Len(toks) : isInt(toks[i])
    /\ q.isValid =>
          /\ q.length = Len(toks)
          /\ q.minQual \in TokenValues(toks) /\ \A v \in TokenValues(toks) : q.minQual <= v
          /\ q.maxQual \in TokenValues(toks) /\ \A v \in TokenValues(toks) : q.maxQual >= v

\* C26: in numeric mode parseQual ends the program when a token of the line is above
\* 100 or below -100; else the line is valid exactly when every token is a signed
\* integer, and then length is the number of tokens and minQual and maxQual are the
\* smallest and the largest token.
C26_NumericRange ==
    ParsedAsNumbers =>
        IF \E v \in TokenValues(Tokens(qualCall.qualString)) : v > 100 \/ v < 0 - 100
        THEN qualCall.q.exit
        ELSE NumbersInRange(qualCall.q, Tokens(qualCall.qualString))


\* ------------------------------------------------------------------------
\* FastqReader.readQual of a reader of four-line records, from the line it has
\* read on: the check of the line, the length of the quality and the quotes
\* ------------------------------------------------------------------------
MaxQualLen == 4

QuotedChars == {"\"", "I", " "}

\* the quality lines: texts of up to MaxQualLen characters
QuotedLines == SeqsUpTo(QuotedChars, MaxQualLen)

\* the end of readQual: the quotes go when the length is not that of the sequence
quotesStripped(rd, lengthQual) ==
    IF /\ lengthQual # rd.length
       /\ slice(rd.qual, 0, 1) = <<"\"">>
       /\ slice(rd.qual, 1, 2) # <<"\"">>
       /\ rd.qual[lengthQual] = "\""
    THEN [rd EXCEPT !.qual = slice(rd.qual, 1, lengthQual - 1), !.lengthQual = lengthQual - 2,
                    !.pc = "read"]
    ELSE [rd EXCEPT !.lengthQual = lengthQual, !.pc = "read"]

\* "if self.isNumQual: lengthQual = len ( self.qual.split() )"
qualMeasured(rd) ==
    quotesStripped(rd, IF rd.isNumQual THEN Len(Tokens(rd.qual)) ELSE Len(rd.qual))

\* the loop of readQual: a line parseQual rejects is discarded and the reader looks
\* for the next valid defline, which is not followed here
qualChecked(rd) ==
    IF rd.qualParser.exit THEN [rd EXCEPT !.pc = "exit"]
    ELSE IF rd.qual = <<>> \/ rd.qualParser.isValid THEN qualMeasured(rd)
    ELSE [rd EXCEPT !.pc = "discarded"]

\* readQual after "self.qualOrig = handle.readline()"
qualOrigRead(rd) ==
    IF rd.checkSeqQual
    THEN qualChecked([rd EXCEPT !.qual = stripped(rd.qualOrig),
                                !.qualParser = parseQualString(rd.qualParser,
                                                               stripped(rd.qualOrig))])
    ELSE qualMeasured([rd EXCEPT !.qual = stripped(rd.qualOrig)])

\* a reader whose sequence has length "length" and whose quality line is read
ReadQualInit ==
    /\ EightLineIdle
    /\ FileTypesIdle
    /\ PoreFilesIdle
    /\ FilePairsIdle
    /\ QualIdle
    /\ PairIdle
    /\ LenIdle
    /\ LoadIdle
    /\ FilesIdle
    /\ ParseIdle
    /\ \E qualOrig \in QuotedLines, length \in 0..MaxQualLen, isNumQual \in BOOLEAN,
          checkSeqQual \in BOOLEAN, parserIsNum \in BOOLEAN, parserIsAsc \in BOOLEAN :
          /\ ~(parserIsNum /\ parserIsAsc)
          /\ qualCall = [pc |-> "readQual", qualOrig |-> qualOrig, qual |-> <<>>,
                         length |-> length, lengthQual |-> 0, isNumQual |-> isNumQual,
                         checkSeqQual |-> checkSeqQual,
                         qualParser |-> QualWith(parserIsNum, parserIsAsc)]

ReadQual ==
    /\ qualCall.pc = "readQual"
    /\ qualCall' = qualOrigRead(qualCall)
    /\ UNCHANGED <<eightLineVars, fileTypeVars, poreFilesVars, pairVars, lenVars, loadVars, filesVars, qualVars, filePairVars,
                   parseVars>>

SpecReadQual == ReadQualInit /\ [][ReadQual]_vars

\* the quality line of the call without the blanks around it begins and ends with a
\* double quote
IsQuoted(cs) == Len(cs) >= 2 /\ cs[1] = "\"" /\ cs[Len(cs)] = "\""

\* C25: readQual takes the two quotes off an ASCII quality string that begins and ends
\* with a double quote only when the string is longer than the sequence by exactly 2;
\* with any other difference of the lengths the string is left as it is.
C25_QuotesOnlyAtTwo ==
    (/\ qualCall.pc = "read"
     /\ ~qualCall.isNumQual
     /\ IsQuoted(stripped(qualCall.qualOrig))
     /\ Len(stripped(qualCall.qualOrig)) - qualCall.length # 2)
        => qualCall.qual = stripped(qualCall.qualOrig)


\* ------------------------------------------------------------------------
\* setFileTypes for files that begin with ">": sequence files and the quality
\* files that go with them.  A file holds two records of different names whose
\* second lines are alike, so no file is eight-line or multi-line
\* ------------------------------------------------------------------------
MaxTypedFiles == 3

TypedFileKinds ==
    {[deflineChar |-> "@", name |-> 1, line |-> "ACGT"]}
        \cup {[deflineChar |-> ">", name |-> n, line |-> l] :
                 n \in 1..MaxName, l \in {"ACGT", "40 40", "II I"}}

\* fileQualPairs is a dictionary from a file to a file: 0 stands for a file that is
\* not a key; "tested" is history: the calls of isSeqQualFastq and what they returned
NewQualPairing ==
    [fileTypes |-> [f \in 1..Len(typedFiles) |-> ""],
     fileQualPairs |-> [f \in 1..Len(typedFiles) |-> 0], fileSkip |-> {}, tested |-> <<>>,
     fatal |-> FALSE]

\* SeqQualFastqReader.isSeqQualFastq on the first records of the two files:
\* 0 is False
isSeqQualFastq(fileA, fileB) ==
    IF isPairedDeflines(ReadDefline(fileA.name, 0), ReadDefline(fileB.name, 0), TRUE) = 0
    THEN 0
    ELSE IF parseSeq(NewSeq, fileA.line).isValid /\ parseQual(NewQual, fileB.line).isValid
    THEN 1
    ELSE IF parseSeq(NewSeq, fileB.line).isValid /\ parseQual(NewQual, fileA.line).isValid
    THEN 2
    ELSE 0

\* setFileTypes, what is recorded after isSeqQualFastq: the file of the sequences
\* and the file of the qualities
seqQualRecorded(st, seqFile, qualFile) ==
    [st EXCEPT !.fileSkip = @ \cup {qualFile}, !.fileQualPairs[seqFile] = qualFile,
               !.fileTypes[seqFile] = "seqQual"]

seqQualTested(st, filename, filename2, result) ==
    IF result = 1 THEN seqQualRecorded(st, filename, filename2)
    ELSE IF result = 2 THEN seqQualRecorded(st, filename2, filename)
    ELSE st

RECURSIVE qualFileSearch(_, _, _)
\* setFileTypes, the loop over the files filename2 for a file that begins with ">"
qualFileSearch(st, filename, filename2) ==
    IF filename2 > Len(typedFiles) THEN st
    ELSE IF \/ filename2 <= filename
            \/ st.fileQualPairs[filename2] # 0
            \/ filename2 \in st.fileSkip
            \/ typedFiles[filename2].deflineChar # ">"
    THEN qualFileSearch(st, filename, filename2 + 1)
    ELSE qualFileSearch(
             seqQualTested([st EXCEPT !.tested =
                                Append(@, [filename |-> filename, filename2 |-> filename2,
                                           result |-> isSeqQualFastq(typedFiles[filename],
                                                                     typedFiles[filename2])])],
                           filename, filename2,
                           isSeqQualFastq(typedFiles[filename], typedFiles[filename2])),
             filename, filename2 + 1)

\* setFileTypes, a file that begins with ">" and has no partner: FastaFastqReader.
\* isFastaFastq, else the run ends
fastaTyped(st, filename) ==
    IF st.fileTypes[filename] # "" \/ filename \in st.fileSkip \/ st.fileQualPairs[filename] # 0
    THEN st
    ELSE IF parseSeq(NewSeq, typedFiles[filename].line).isValid
    THEN [st EXCEPT !.fileTypes[filename] = "fasta"]
    ELSE [st EXCEPT !.fatal = TRUE]

\* setFileTypes, the end of the loop: a file without type that is not skipped is normal
normalTyped(st, filename) ==
    IF st.fatal \/ st.fileTypes[filename] # "" \/ filename \in st.fileSkip THEN st
    ELSE [st EXCEPT !.fileTypes[filename] = "normal"]

\* setFileTypes, the body of the loop over the files
fileTypeSet(st, filename) ==
    IF filename \in st.fileSkip \/ st.fileQualPairs[filename] # 0 THEN st
    ELSE IF typedFiles[filename].deflineChar = "@" THEN normalTyped(st, filename)
    ELSE normalTyped(fastaTyped(qualFileSearch(st, filename, 1), filename), filename)

RECURSIVE setFileTypesFrom(_, _)
setFileTypesFrom(st, filename) ==
    IF filename > Len(typedFiles) \/ st.fatal THEN st
    ELSE setFileTypesFrom(fileTypeSet(st, filename), filename + 1)

FileTypesInit ==
    /\ EightLineIdle
    /\ QualCallIdle
    /\ PoreFilesIdle
    /\ FilePairsIdle
    /\ QualIdle
    /\ PairIdle
    /\ LenIdle
    /\ LoadIdle
    /\ FilesIdle
    /\ ParseIdle
    /\ typedFiles \in SeqsUpTo(TypedFileKinds, MaxTypedFiles) \ {<<>>}
    /\ qualPairing = NewQualPairing
    /\ pcFileTypes = "types"

SetTypedFiles ==
    /\ pcFileTypes = "types"
    /\ qualPairing' = setFileTypesFrom(qualPairing, 1)
    /\ pcFileTypes' = IF qualPairing'.fatal THEN "fatal" ELSE "typed"
    /\ UNCHANGED typedFiles
    /\ UNCHANGED <<eightLineVars, qualCallVars, poreFilesVars, pairVars, lenVars, loadVars, filesVars, qualVars,
                   filePairVars, parseVars>>

SpecFileTypes == FileTypesInit /\ [][SetTypedFiles]_vars

\* the places in "tested" of the calls of isSeqQualFastq for filename that succeeded
MatchesOf(filename) ==
    {i \in 1..Len(qualPairing.tested) :
        qualPairing.tested[i].filename = filename /\ qualPairing.tested[i].result # 0}

\* C23: for a file that begins with ">", once isSeqQualFastq has succeeded for a
\* candidate no further candidate is tested, and one file is skipped for each pair
\* of a sequence file and a quality file.
C23_FirstMatchWins ==
    pcFileTypes \in {"typed", "fatal"} =>
        /\ \A i \in 1..Len(qualPairing.tested) :
               \A j \in MatchesOf(qualPairing.tested[i].filename) : j >= i
        /\ Cardinality(qualPairing.fileSkip)
               = Cardinality({f \in 1..Len(typedFiles) : qualPairing.fileQualPairs[f] # 0})

\* ------------------------------------------------------------------------
\* An eight-line file read by two readers on one handle
\* (processFiles, processFastqSpots, FastqReader, FastaFastqReader)
\* ------------------------------------------------------------------------

MaxStreamRecs == 4
MaxSeqLines == 2

StreamTypes == {"eightLine", "multiLineEightLine", "eightLineFasta", "multiLineEightLineFasta"}

\* getFastqInstance: the reader class and isMultiLine of a file type
typeIsMultiLine(type) == type \in {"multiLineEightLine", "multiLineEightLineFasta"}

typeIsFasta(type) == type \in {"eightLineFasta", "multiLineEightLineFasta"}

\* a line of the file: what it is, the record it belongs to, its place among the
\* record's lines of that kind
lineOf(kind, rec, part) == [kind |-> kind, rec |-> rec, part |-> part]

\* what readline gives at the end of the file, and an unset saved defline string
EmptyLine == lineOf("empty", 0, 0)

seqLinesOf(rec, n) == [i \in 1..n |-> lineOf("seq", rec, i)]

qualLinesOf(rec, n) == [i \in 1..n |-> lineOf("qual", rec, i)]

\* the lines of record rec in a file of the given type
recordLines(type, rec, n) ==
    IF typeIsFasta(type) THEN <<lineOf("defline", rec, 1)>> \o seqLinesOf(rec, n)
    ELSE <<lineOf("defline", rec, 1)>> \o seqLinesOf(rec, n)
             \o <<lineOf("plus", rec, 1)>> \o qualLinesOf(rec, n)

RECURSIVE fileLines(_, _, _)
fileLines(type, counts, rec) ==
    IF rec > Len(counts) THEN <<>>
    ELSE recordLines(type, rec, counts[rec]) \o fileLines(type, counts, rec + 1)

\* the numbers of sequence lines of the records of a file of the given type:
\* isMultiLineFastq gives a multi-line type to a file with a record of more than
\* one sequence line, and to no other
LineCounts(type) ==
    UNION {{c \in [1..n -> 1..MaxSeqLines] :
               typeIsMultiLine(type) <=> \E i \in 1..n : c[i] > 1} : n \in 2..MaxStreamRecs}

\* the first characters of a line, as far as the readers look at them
lineStart(line, isFasta, n) ==
    LET text == CASE line.kind = "defline" -> IF isFasta THEN <<">", "r">> ELSE <<"@", "r">>
                  [] line.kind = "plus" -> <<"+">>
                  [] line.kind = "seq" -> <<"A", "A">>
                  [] line.kind = "qual" -> <<"I", "I">>
                  [] OTHER -> <<>>
    IN SubSeq(text, 1, IF n < Len(text) THEN n ELSE Len(text))

\* Defline.parseDeflineString: the end of the file passes as a defline without a name
deflineIsValid(line) == line.kind \in {"defline", "empty"}

deflineName(line) == IF line.kind = "defline" THEN line.rec ELSE 0

\* Seq.parseSeq on the lines collected as a sequence
seqIsValid(seqOrig) == \A i \in 1..Len(seqOrig) : seqOrig[i].kind = "seq"

NewStreamReader(type) ==
    [isMultiLine |-> typeIsMultiLine(type), isFasta |-> typeIsFasta(type),
     deflineCharSeq |-> IF typeIsFasta(type) THEN ">" ELSE "@", deflineCharQual |-> "+",
     checkSeqQual |-> TRUE, setClips |-> FALSE,
     savedDeflineString |-> EmptyLine, savedDeflineStringSeq |-> EmptyLine,
     savedDeflineStringQual |-> EmptyLine,
     defline |-> EmptyLine, seqOrig |-> <<>>, qualOrig |-> <<>>,
     eof |-> FALSE, spotCount |-> 0, exit |-> FALSE, delivered |-> <<>>]

\* handle.readline(): a reading context is the file, the handle's position and
\* the reader at work
lineRead(c) == IF c.pos < Len(c.lines) THEN c.lines[c.pos + 1] ELSE EmptyLine

afterLine(c) == IF c.pos < Len(c.lines) THEN [c EXCEPT !.pos = @ + 1] ELSE c

RECURSIVE findValidDeflineLoop(_, _)
findValidDeflineLoop(c, count) ==
    LET line == lineRead(c)
        parsed == [afterLine(c) EXCEPT !.rd.defline = line]
    IN IF deflineIsValid(line) THEN [parsed EXCEPT !.rd.savedDeflineString = line]
       ELSE IF count = 1000 \/ line = EmptyLine THEN [parsed EXCEPT !.rd.exit = TRUE]
       ELSE findValidDeflineLoop(parsed, count + 1)

deflineChecked(c) ==
    IF deflineIsValid(c.rd.defline) THEN c ELSE findValidDeflineLoop(c, 1)

processStreamDefline(c) ==
    IF c.rd.savedDeflineString # EmptyLine
    THEN deflineChecked([c EXCEPT !.rd.defline = c.rd.savedDeflineString])
    ELSE IF c.rd.savedDeflineStringSeq # EmptyLine
    THEN deflineChecked([c EXCEPT !.rd.defline = c.rd.savedDeflineStringSeq,
                                  !.rd.savedDeflineStringSeq = EmptyLine])
    ELSE deflineChecked([afterLine(c) EXCEPT !.rd.defline = lineRead(c)])

findStreamDefline(c, callProcessSeqDefline) ==
    LET found == findValidDeflineLoop(c, 1)
    IN IF callProcessSeqDefline /\ ~found.rd.exit THEN processStreamDefline(found) ELSE found

\* readMultiLineSeq: the lines up to a line that begins with deflineCharQual, or
\* with deflineCharSeq in a fasta file; that line is what it returns
RECURSIVE multiLineSeqFrom(_, _)
multiLineSeqFrom(c, seqOrig) ==
    LET line == lineRead(c)
    IN IF line = EmptyLine THEN [c |-> [c EXCEPT !.rd.seqOrig = seqOrig], returned |-> EmptyLine]
       ELSE IF \/ c.rd.isFasta /\ lineStart(line, c.rd.isFasta, 1) = <<c.rd.deflineCharSeq>>
               \/ lineStart(line, c.rd.isFasta, 1) = <<c.rd.deflineCharQual>>
       THEN [c |-> [afterLine(c) EXCEPT !.rd.seqOrig = seqOrig], returned |-> line]
       ELSE multiLineSeqFrom(afterLine(c), Append(seqOrig, line))

multiLineSeqSaved(c, r) ==
    IF c.rd.isFasta THEN [r.c EXCEPT !.rd.savedDeflineStringSeq = r.returned]
    ELSE [r.c EXCEPT !.rd.savedDeflineStringQual = r.returned]

streamSeqLine(c) ==
    IF c.rd.isMultiLine THEN multiLineSeqSaved(c, multiLineSeqFrom(c, <<>>))
    ELSE [afterLine(c) EXCEPT !.rd.seqOrig = IF lineRead(c) = EmptyLine THEN <<>>
                                                ELSE <<lineRead(c)>>]

RECURSIVE streamSeqLoop(_)
streamSeqLoop(c) ==
    LET cleared == [c EXCEPT !.rd.savedDeflineString = EmptyLine]
    IN IF cleared.rd.seqOrig = <<>> \/ seqIsValid(cleared.rd.seqOrig) \/ cleared.rd.exit
       THEN cleared
       ELSE streamSeqLoop(streamSeqLine(findStreamDefline(cleared, TRUE)))

seqRead(c) ==
    IF c.rd.savedDeflineString # EmptyLine \/ c.rd.checkSeqQual \/ c.rd.setClips
    THEN streamSeqLoop(c) ELSE c

readStreamSeq(c) == seqRead(streamSeqLine(c))

processStreamQualDefline(c) ==
    IF c.rd.savedDeflineStringQual # EmptyLine
    THEN [c EXCEPT !.rd.savedDeflineStringQual = EmptyLine]
    ELSE afterLine(c)

\* readMultiLineQual: the lines up to a line that begins as the reader's defline
\* does and passes as a defline; that line is what it returns
RECURSIVE multiLineQualFrom(_, _)
multiLineQualFrom(c, qualOrig) ==
    LET line == lineRead(c)
    IN IF line = EmptyLine THEN [c |-> [c EXCEPT !.rd.qualOrig = qualOrig], returned |-> EmptyLine]
       ELSE IF /\ lineStart(line, c.rd.isFasta, 2) = lineStart(c.rd.defline, c.rd.isFasta, 2)
               /\ deflineIsValid(line)
       THEN [c |-> [afterLine(c) EXCEPT !.rd.qualOrig = qualOrig], returned |-> line]
       ELSE multiLineQualFrom(afterLine(c), Append(qualOrig, line))

multiLineQualSaved(r) == [r.c EXCEPT !.rd.savedDeflineStringSeq = r.returned]

\* readQual: Qual.parseQual takes every line of the file as a quality string, so
\* the loop that looks for a valid spot ends at once
readStreamQual(c) ==
    IF c.rd.isMultiLine THEN multiLineQualSaved(multiLineQualFrom(c, <<>>))
    ELSE [afterLine(c) EXCEPT !.rd.qualOrig = IF lineRead(c) = EmptyLine THEN <<>>
                                                 ELSE <<lineRead(c)>>]

streamSpotCounted(c) ==
    IF c.rd.qualOrig # <<>> \/ deflineName(c.rd.defline) # 0
    THEN [c EXCEPT !.rd.spotCount = @ + 1]
    ELSE [c EXCEPT !.rd.eof = TRUE]

\* FastaFastqReader.updateQualAndSpotCountOrEof: the quality is made up, one
\* default value for each base
streamQualMadeUp(c) ==
    IF deflineName(c.rd.defline) = 0 /\ c.rd.seqOrig = <<>>
    THEN [c EXCEPT !.rd.qualOrig = <<>>, !.rd.eof = TRUE]
    ELSE [c EXCEPT !.rd.qualOrig = [i \in 1..Len(c.rd.seqOrig) |-> lineOf("qual", 0, i)],
                   !.rd.spotCount = @ + 1]

streamRecordRead(c) ==
    IF c.rd.isFasta THEN streamQualMadeUp(readStreamSeq(processStreamDefline(c)))
    ELSE streamSpotCounted(readStreamQual(processStreamQualDefline(
             readStreamSeq(processStreamDefline(c)))))

\* what a reader holds after read() is the record it hands to the spot loop
streamDelivered(c) ==
    IF c.rd.eof \/ c.rd.exit THEN c
    ELSE [c EXCEPT !.rd.delivered =
              Append(@, [defline |-> c.rd.defline, seq |-> c.rd.seqOrig, qual |-> c.rd.qualOrig])]

streamRead(lines, pos, rd) == streamDelivered(streamRecordRead([lines |-> lines, pos |-> pos, rd |-> rd]))

\* processFiles: both readers are made on the handle of the one file, after the
\* first has read one record and has been restarted
EightLineInit ==
    /\ FileTypesIdle
    /\ QualCallIdle
    /\ PoreFilesIdle
    /\ FilePairsIdle
    /\ QualIdle
    /\ PairIdle
    /\ LenIdle
    /\ LoadIdle
    /\ FilesIdle
    /\ ParseIdle
    /\ streamType \in StreamTypes
    /\ \E counts \in LineCounts(streamType) : streamLines = fileLines(streamType, counts, 1)
    /\ streamPos = 0
    /\ streamReaders = <<NewStreamReader(streamType), NewStreamReader(streamType)>>
    /\ streamFastq = [fastq1 |-> 1, fastq2 |-> 2]
    /\ pcStream = "read1"

EightLineOthers ==
    UNCHANGED <<fileTypeVars, qualCallVars, poreFilesVars, pairVars, lenVars, loadVars,
                filesVars, qualVars, filePairVars, parseVars>>

\* processFastqSpots: fastq1.read() unless fastq1 is at its end
ReadFastq1 ==
    /\ pcStream = "read1"
    /\ LET rd == streamReaders[streamFastq.fastq1]
           c == streamRead(streamLines, streamPos, rd)
       IN IF rd.eof
          THEN UNCHANGED <<streamPos, streamReaders>> /\ pcStream' = "read2"
          ELSE /\ streamPos' = c.pos
               /\ streamReaders' = [streamReaders EXCEPT ![streamFastq.fastq1] = c.rd]
               /\ pcStream' = IF c.rd.exit THEN "exit" ELSE "read2"
    /\ UNCHANGED <<streamLines, streamFastq, streamType>>
    /\ EightLineOthers

\* the readers bound to fastq1 and fastq2 for the next turn of the loop
fastqRebound(fq, rds) ==
    IF fq.fastq2 # 0 /\ rds[fq.fastq2].eof THEN [fq EXCEPT !.fastq2 = 0]
    ELSE IF fq.fastq2 # 0 /\ rds[fq.fastq1].eof THEN [fastq1 |-> fq.fastq2, fastq2 |-> 0]
    ELSE fq

\* processFastqSpots: fastq2.read() if there is a fastq2 not at its end, then
\* the end of the loop or the spot and the new binding of the readers
ReadFastq2 ==
    /\ pcStream = "read2"
    /\ LET bound == streamFastq.fastq2 # 0 /\ ~streamReaders[streamFastq.fastq2].eof
           c == streamRead(streamLines, streamPos,
                           streamReaders[IF bound THEN streamFastq.fastq2 ELSE streamFastq.fastq1])
           rds == IF bound THEN [streamReaders EXCEPT ![streamFastq.fastq2] = c.rd]
                  ELSE streamReaders
       IN /\ streamPos' = IF bound THEN c.pos ELSE streamPos
          /\ streamReaders' = rds
          /\ IF bound /\ c.rd.exit
             THEN pcStream' = "exit" /\ UNCHANGED streamFastq
             ELSE IF rds[streamFastq.fastq1].eof
                     /\ (streamFastq.fastq2 = 0 \/ rds[streamFastq.fastq2].eof)
             THEN pcStream' = "done" /\ UNCHANGED streamFastq
             ELSE pcStream' = "read1" /\ streamFastq' = fastqRebound(streamFastq, rds)
    /\ UNCHANGED <<streamLines, streamType>>
    /\ EightLineOthers

EightLineNext == ReadFastq1 \/ ReadFastq2

SpecEightLine == EightLineInit /\ [][EightLineNext]_vars

\* the number of records of the file
StreamRecs == Cardinality({i \in 1..Len(streamLines) : streamLines[i].kind = "defline"})

\* record rec of the file as a reader has to deliver it
StreamRecord(rec) ==
    LET n == Cardinality({i \in 1..Len(streamLines) :
                              streamLines[i].kind = "seq" /\ streamLines[i].rec = rec})
    IN [defline |-> lineOf("defline", rec, 1), seq |-> seqLinesOf(rec, n),
        qual |-> IF typeIsFasta(streamType) THEN qualLinesOf(0, n) ELSE qualLinesOf(rec, n)]

\* the records reader i of the two has to deliver: every second one from record i
RecordsFor(i) ==
    [j \in 1..((StreamRecs + 2 - i) \div 2) |-> StreamRecord(2 * j - 2 + i)]

\* C22: the two readers on the handle of an eight-line file of any of the four
\* types deliver every record of the file once and in the order of the file,
\* reader 1 the records 1, 3, 5, ... and reader 2 the records 2, 4, 6, ...
C22_NoRecordLost ==
    pcStream = "done" => \A i \in 1..2 : streamReaders[i].delivered = RecordsFor(i)

====
